---------------------------- MODULE Spec2Model ----------------------------
(***************************************************************************)
(* A model of the secure_fs_guard daemon: the mode manager (auth.py), the  *)
(* watcher's event path (watcher.py), the recovery engine (recovery.py),   *)
(* the integrity engine (integrity_engine.py), the baseline store          *)
(* (hash_storage.py) and the orchestrator that binds them (main.py).       *)
(*                                                                         *)
(* Time is a discrete clock `now`; datetime.now() and time.time() read it. *)
(* Optional values are sequences of length at most one: None is <<>>.      *)
(***************************************************************************)
EXTENDS Integers, Sequences, FiniteSets, TLC

VARIABLES
    now,            \* the wall clock read by datetime.now() / time.time()
    euid,           \* os.geteuid() of the process
    ipc,            \* one control-channel connection: both ends, the socket
    mthread,        \* the mode-manager call each thread is in the middle of
    sthread,        \* the store call each thread is in the middle of, and
                    \* history: the whole records the store has held
    rthread,        \* the restore each thread is in the middle of
    wthreads,       \* the watcher's threads, one set per start()
    scan,           \* the periodic scan: file_states, and what was seen
    auth_manager,   \* the AuthManager object (auth.py)
    issued,         \* how many session tokens secrets.token_hex has produced
    lapsed,         \* history: tokens whose session was in the table when
                    \* get_current_mode() ended Update by itself
    last,           \* history: the last call made, its arguments and result
    watcher,        \* the FileWatcher object (watcher.py)
    wpc,            \* where each source thread stands inside _queue_event
    wloc,           \* each source thread's locals: the event, current_time
    emitted,        \* history: how many events the sources have created
    handled,        \* history: the events the callback was invoked with
    fs,             \* the protected files: path -> file (data, mode bits)
    backups,        \* the backup directory: backup name -> file data
    chattr_ok,      \* whether `chattr +i` works on this platform
    hash_storage,   \* the HashStorage tables (hash_storage.py)
    integrity_engine,  \* the IntegrityEngine object: modification_history
    init_thread,    \* the thread running _perform_initialization
    handler,        \* where the event-processor thread stands in the callback
    edit            \* history: per path, a change made in Update mode

procVars == <<euid, ipc, mthread, sthread, rthread, wthreads, scan>>
authVars == <<auth_manager, issued, lapsed>>
watcherVars == <<watcher, wpc, wloc, emitted, handled>>
fsVars == <<fs, backups>>
guardVars == <<chattr_ok, hash_storage, integrity_engine, init_thread,
               handler, edit>>
nonAuthVars == <<watcherVars, fsVars, guardVars>>
nonWatcherVars == <<procVars, authVars, last, fsVars, guardVars>>
vars == <<now, procVars, authVars, last, watcherVars, fsVars, guardVars>>

None == <<>>
Some(x) == <<x>>

(***************************************************************************)
(* Bounds of the model.                                                    *)
(***************************************************************************)
MaxTime == 4
MaxTokens == 2

Users == {"root", "admin", "gui"}
Timeouts == {1, 2}
Reasons == {"ransomware", "manual"}
Tokens == 1..MaxTokens
IpcUsers == {"root", "gui"}
IpcTimeouts == {1}

(***************************************************************************)
(* auth.py: AuthManager                                                    *)
(***************************************************************************)
AuthManagerInit ==
    [current_mode |-> "MONITOR",
     mode_start_time |-> None,
     mode_timeout |-> None,
     active_sessions |-> {},
     emergency_triggered |-> FALSE,
     emergency_reason |-> ""]

\* _verify_admin: the process runs as root and the name is an allowed one.
_verify_admin(uid, admin_user) ==
    IF uid # 0 THEN FALSE ELSE admin_user \in {"root", "admin"}

_is_mode_expired_late(A, t) ==
    IF A.mode_timeout = None \/ A.mode_start_time = None
    THEN FALSE
    ELSE (t - A.mode_start_time[1]) > A.mode_timeout[1] + 1

\* _is_mode_expired at time t.
_is_mode_expired(A, t) ==
    IF A.mode_timeout = None \/ A.mode_start_time = None
    THEN FALSE
    ELSE (t - A.mode_start_time[1]) > A.mode_timeout[1]

_exit_update_mode_keeps_sessions(A) ==
    [A EXCEPT !.current_mode = "MONITOR",
              !.mode_start_time = None,
              !.mode_timeout = None]

\* _exit_update_mode: back to Monitor, every session dropped.
_exit_update_mode(A) ==
    [A EXCEPT !.current_mode = "MONITOR",
              !.mode_start_time = None,
              !.mode_timeout = None,
              !.active_sessions = {}]

get_current_mode_eager(A, t) ==
    LET B == IF A.current_mode = "UPDATE" THEN _exit_update_mode(A) ELSE A
    IN [A |-> B, ok |-> TRUE, ret |-> B.current_mode]

\* get_current_mode: the lazy deadline check, then the mode.
get_current_mode(A, t) ==
    LET B == IF A.current_mode = "UPDATE" /\ _is_mode_expired(A, t)
             THEN _exit_update_mode(A)
             ELSE A
    IN [A |-> B, ok |-> TRUE, ret |-> B.current_mode]

enter_init_mode_from_update(A, uid, admin_user, t) ==
    IF A.current_mode \notin {"MONITOR", "UPDATE"}
    THEN [A |-> A, ok |-> FALSE, ret |-> "fail"]
    ELSE [A |-> [A EXCEPT !.current_mode = "INIT",
                          !.mode_start_time = Some(t),
                          !.mode_timeout = None],
          ok |-> TRUE, ret |-> "ok"]

enter_init_mode(A, uid, admin_user, t) ==
    IF A.current_mode # "MONITOR"
    THEN [A |-> A, ok |-> FALSE, ret |-> "fail"]
    ELSE [A |-> [A EXCEPT !.current_mode = "INIT",
                          !.mode_start_time = Some(t),
                          !.mode_timeout = None],
          ok |-> TRUE, ret |-> "ok"]

exit_init_mode(A, uid, admin_user, t) ==
    IF A.current_mode # "INIT"
    THEN [A |-> A, ok |-> FALSE, ret |-> "fail"]
    ELSE [A |-> [A EXCEPT !.current_mode = "MONITOR",
                          !.mode_start_time = None,
                          !.mode_timeout = None],
          ok |-> TRUE, ret |-> "ok"]

\* _generate_session_token: the fresh token tok is stored with its expiry.
_generate_session_token(A, tok, admin_user, timeout, t) ==
    [A EXCEPT !.active_sessions =
        {s \in @ : s.token # tok} \cup
        {[token |-> tok, user |-> admin_user, created |-> t,
          expires |-> t + timeout]}]

enter_update_mode_from_emergency(A, uid, admin_user, timeout, tok, t) ==
    IF A.current_mode = "INIT"
    THEN [A |-> A, ok |-> FALSE, ret |-> "fail", token |-> None]
    ELSE IF A.current_mode = "UPDATE"
    THEN [A |-> [A EXCEPT !.mode_timeout = Some(timeout),
                          !.mode_start_time = Some(t)],
          ok |-> TRUE, ret |-> "extended", token |-> None]
    ELSE IF ~_verify_admin(uid, admin_user)
    THEN [A |-> A, ok |-> FALSE, ret |-> "fail", token |-> None]
    ELSE [A |-> [_generate_session_token(A, tok, admin_user, timeout, t)
                    EXCEPT !.current_mode = "UPDATE",
                           !.mode_start_time = Some(t),
                           !.mode_timeout = Some(timeout)],
          ok |-> TRUE, ret |-> "ok", token |-> Some(tok)]

enter_update_mode_extension_token(A, uid, admin_user, timeout, tok, t) ==
    IF A.current_mode = "EMERGENCY"
    THEN [A |-> A, ok |-> FALSE, ret |-> "fail", token |-> None]
    ELSE IF A.current_mode = "INIT"
    THEN [A |-> A, ok |-> FALSE, ret |-> "fail", token |-> None]
    ELSE IF ~_verify_admin(uid, admin_user)
    THEN [A |-> A, ok |-> FALSE, ret |-> "fail", token |-> None]
    ELSE [A |-> [_generate_session_token(A, tok, admin_user, timeout, t)
                    EXCEPT !.current_mode = "UPDATE",
                           !.mode_start_time = Some(t),
                           !.mode_timeout = Some(timeout)],
          ok |-> TRUE, ret |-> "ok", token |-> Some(tok)]

\* enter_update_mode; tok is the token the generator would return.
enter_update_mode(A, uid, admin_user, timeout, tok, t) ==
    IF A.current_mode = "EMERGENCY"
    THEN [A |-> A, ok |-> FALSE, ret |-> "fail", token |-> None]
    ELSE IF A.current_mode = "INIT"
    THEN [A |-> A, ok |-> FALSE, ret |-> "fail", token |-> None]
    ELSE IF A.current_mode = "UPDATE"
    THEN [A |-> [A EXCEPT !.mode_timeout = Some(timeout),
                          !.mode_start_time = Some(t)],
          ok |-> TRUE, ret |-> "extended", token |-> None]
    ELSE IF ~_verify_admin(uid, admin_user)
    THEN [A |-> A, ok |-> FALSE, ret |-> "fail", token |-> None]
    ELSE [A |-> [_generate_session_token(A, tok, admin_user, timeout, t)
                    EXCEPT !.current_mode = "UPDATE",
                           !.mode_start_time = Some(t),
                           !.mode_timeout = Some(timeout)],
          ok |-> TRUE, ret |-> "ok", token |-> Some(tok)]

exit_update_mode(A, uid, admin_user, t) ==
    IF A.current_mode # "UPDATE"
    THEN [A |-> A, ok |-> FALSE, ret |-> "fail"]
    ELSE [A |-> _exit_update_mode(A), ok |-> TRUE, ret |-> "ok"]

enter_emergency_mode_keeps_sessions(A, reason, t) ==
    [A |-> [A EXCEPT !.current_mode = "EMERGENCY",
                     !.mode_start_time = Some(t),
                     !.mode_timeout = None,
                     !.emergency_triggered = TRUE,
                     !.emergency_reason = reason],
     ok |-> TRUE, ret |-> "ok"]

enter_emergency_mode(A, reason, t) ==
    LET B == IF A.current_mode = "UPDATE" THEN _exit_update_mode(A) ELSE A
    IN [A |-> [B EXCEPT !.current_mode = "EMERGENCY",
                        !.mode_start_time = Some(t),
                        !.mode_timeout = None,
                        !.emergency_triggered = TRUE,
                        !.emergency_reason = reason],
        ok |-> TRUE, ret |-> "ok"]

exit_emergency_mode(A, uid, admin_user, t) ==
    IF A.current_mode # "EMERGENCY"
    THEN [A |-> A, ok |-> FALSE, ret |-> "fail"]
    ELSE IF ~_verify_admin(uid, admin_user)
    THEN [A |-> A, ok |-> FALSE, ret |-> "fail"]
    ELSE [A |-> [A EXCEPT !.current_mode = "MONITOR",
                          !.mode_start_time = None,
                          !.mode_timeout = None,
                          !.emergency_triggered = FALSE,
                          !.emergency_reason = ""],
          ok |-> TRUE, ret |-> "ok"]

\* verify_session_token: an expired session is deleted when it is seen.
verify_session_token(A, tok, t) ==
    IF ~(\E s \in A.active_sessions : s.token = tok)
    THEN [A |-> A, ok |-> FALSE, ret |-> "UNAUTHORIZED"]
    ELSE LET session == CHOOSE s \in A.active_sessions : s.token = tok
         IN IF t > session.expires
            THEN [A |-> [A EXCEPT !.active_sessions = @ \ {session}],
                  ok |-> FALSE, ret |-> "EXPIRED"]
            ELSE [A |-> A, ok |-> TRUE, ret |-> "SUCCESS"]

\* cleanup_expired_sessions: the main loop's ticker.
cleanup_expired_sessions(A, t) ==
    [A EXCEPT !.active_sessions = {s \in @ : ~(t > s.expires)}]

(***************************************************************************)
(* The file system as the daemon sees it.  A file is its bytes, its write  *)
(* permission bits (user, group, other) and the immutable attribute that   *)
(* chattr +i sets.  The daemon runs as root: a missing write bit does not  *)
(* stop its writes, the immutable attribute does.                          *)
(***************************************************************************)
MaxLen == 4
MaxByte == 1
block_size == 2

Bytes == 0..MaxByte
Contents == UNION {[1..n -> Bytes] : n \in 0..MaxLen}

Absent == [exists |-> FALSE, data |-> <<>>, wbits |-> {}, immutable |-> FALSE]
NewFile(d) == [exists |-> TRUE, data |-> d, wbits |-> {"u"}, immutable |-> FALSE]

Min(a, b) == IF a < b THEN a ELSE b
Max(a, b) == IF a > b THEN a ELSE b
Zeros(n) == [i \in 1..n |-> 0]

\* f.seek(off); f.read(n): the bytes at offsets off .. off+n-1 that exist.
ReadAt(d, off, n) ==
    IF off >= Len(d) THEN <<>> ELSE SubSeq(d, off + 1, Min(off + n, Len(d)))

\* f.seek(off); f.write(blk): a write past the end fills the gap with zeros.
WriteAt(d, off, blk) ==
    LET padded == IF off > Len(d) THEN d \o Zeros(off - Len(d)) ELSE d
        n == Max(Len(padded), off + Len(blk))
    IN [i \in 1..n |-> IF i > off /\ i <= off + Len(blk)
                       THEN blk[i - off] ELSE padded[i]]

\* f.truncate(n): cut, or extend with zeros.
Truncate(d, n) ==
    IF Len(d) >= n THEN SubSeq(d, 1, n) ELSE d \o Zeros(n - Len(d))

(***************************************************************************)
(* recovery.py: RecoveryEngine                                             *)
(***************************************************************************)
\* _lock_file: strip the write bits; every error is swallowed.
_lock_file(F) ==
    IF F.exists /\ ~F.immutable THEN [F EXCEPT !.wbits = {}] ELSE F

\* _unlock_file: give the owner write bit back; every error is swallowed.
_unlock_file(F) ==
    IF F.exists /\ ~F.immutable THEN [F EXCEPT !.wbits = @ \cup {"u"}] ELSE F

\* restore_from_backup: B is the backup file (Absent when it is missing).
\* copy2 copies the data and the backup's mode; chmod 0o644 follows.
restore_from_backup(F, B) ==
    IF ~B.exists
    THEN [ok |-> FALSE, F |-> F]
    ELSE LET L == _lock_file(F)
         IN IF L.exists /\ L.immutable
            THEN [ok |-> FALSE, F |-> L]
            ELSE [ok |-> TRUE,
                  F |-> _unlock_file([exists |-> TRUE, data |-> B.data,
                                      wbits |-> {"u"}, immutable |-> FALSE])]

\* The loop of restore_blocks over sorted(block_indices).
RECURSIVE WriteBlocks(_, _, _)
WriteBlocks(d, bd, I) ==
    IF I = {} THEN d
    ELSE LET i == CHOOSE x \in I : \A y \in I : x <= y
             blk == ReadAt(bd, i * block_size, block_size)
         IN WriteBlocks(IF blk = <<>> THEN d
                        ELSE WriteAt(d, i * block_size, blk),
                        bd, I \ {i})

RECURSIVE WriteWholeBlocks(_, _, _)
WriteWholeBlocks(d, bd, I) ==
    IF I = {} THEN d
    ELSE LET i == CHOOSE x \in I : \A y \in I : x <= y
             blk == ReadAt(bd, i * block_size, block_size)
         IN WriteWholeBlocks(IF Len(blk) < block_size THEN d
                             ELSE WriteAt(d, i * block_size, blk),
                             bd, I \ {i})

restore_blocks_whole_blocks_only(F, B, I) ==
    IF ~B.exists
    THEN [ok |-> FALSE, F |-> F]
    ELSE IF ~F.exists
    THEN restore_from_backup(F, B)
    ELSE LET L == _lock_file(F)
         IN IF L.immutable
            THEN [ok |-> FALSE, F |-> L]
            ELSE [ok |-> TRUE,
                  F |-> _unlock_file(
                          [L EXCEPT !.data =
                              Truncate(WriteWholeBlocks(L.data, B.data, I),
                                       Len(B.data))])]

restore_blocks_no_truncate(F, B, I) ==
    IF ~B.exists
    THEN [ok |-> FALSE, F |-> F]
    ELSE IF ~F.exists
    THEN restore_from_backup(F, B)
    ELSE LET L == _lock_file(F)
         IN IF L.immutable
            THEN [ok |-> FALSE, F |-> L]
            ELSE [ok |-> TRUE,
                  F |-> _unlock_file(
                          [L EXCEPT !.data = WriteBlocks(L.data, B.data, I)])]

\* restore_blocks: copy the blocks I from the backup, then truncate the
\* target to the backup's length.
restore_blocks(F, B, I) ==
    IF ~B.exists
    THEN [ok |-> FALSE, F |-> F]
    ELSE IF ~F.exists
    THEN restore_from_backup(F, B)
    ELSE LET L == _lock_file(F)
         IN IF L.immutable
            THEN [ok |-> FALSE, F |-> L]
            ELSE [ok |-> TRUE,
                  F |-> _unlock_file(
                          [L EXCEPT !.data =
                              Truncate(WriteBlocks(L.data, B.data, I),
                                       Len(B.data))])]

\* create_backup at time t: copy the file under the name of this second.
create_backup(p, F, Bk, t) ==
    IF ~F.exists
    THEN [ok |-> FALSE, backups |-> Bk, backup_path |-> None]
    ELSE LET backup_name == <<p, t>>
             copy == [exists |-> TRUE, data |-> F.data, wbits |-> {"u"},
                      immutable |-> FALSE]
         IN [ok |-> TRUE,
             backups |-> [n \in DOMAIN Bk \cup {backup_name} |->
                             IF n = backup_name THEN copy ELSE Bk[n]],
             backup_path |-> Some(backup_name)]

\* block_file: chmod away the write bits, then chattr +i when permanent.
\* chmod on an immutable file raises PermissionError.
block_file(F, permanent, chattr) ==
    IF ~F.exists \/ F.immutable
    THEN [ok |-> FALSE, F |-> F]
    ELSE [ok |-> TRUE,
          F |-> [F EXCEPT !.wbits = {},
                          !.immutable = permanent /\ chattr]]

emergency_block_all_first_only(FS, file_paths, chattr) ==
    LET first == IF file_paths = {} THEN {}
                 ELSE {CHOOSE p \in file_paths : TRUE}
    IN [p \in DOMAIN FS |->
          IF p \in first THEN block_file(FS[p], TRUE, chattr).F ELSE FS[p]]

\* emergency_block_all: block_file(permanent) on every path given.
emergency_block_all(FS, file_paths, chattr) ==
    [p \in DOMAIN FS |->
        IF p \in file_paths THEN block_file(FS[p], TRUE, chattr).F ELSE FS[p]]

(***************************************************************************)
(* integrity_engine.py: IntegrityEngine.  SHA-256 is an injective function *)
(* of the block.  A change percentage is kept as the exact fraction        *)
(* num/den (percent); entropy is in thousandths of a bit.                  *)
(***************************************************************************)
files_count_threshold == 2
time_window == 2
block_change_percent == 70
entropy_threshold == 1000

Sha256(blk) == <<"sha256", blk>>

CeilDiv(a, b) == (a + b - 1) \div b

\* compute_file_hashes, lines 96-106: read block after block until EOF.
compute_file_hashes(d) ==
    [i \in 1..CeilDiv(Len(d), block_size) |->
        Sha256(ReadAt(d, (i - 1) * block_size, block_size))]

\* range(a, b) as a list.
Range(a, b) == [k \in 1..(b - a) |-> a + k - 1]

compare_hashes_common_only(C, R) ==
    LET max_blocks == Max(Len(C), Len(R))
        min_blocks == Min(Len(C), Len(R))
        Differs(i) == C[i + 1] # R[i + 1]
        changed == SelectSeq(Range(0, min_blocks), Differs)
    IN [changed_indices |-> {changed[k] : k \in 1..Len(changed)},
        changed_list |-> changed,
        change_percent |->
            IF max_blocks > 0
            THEN [num |-> Len(changed) * 100, den |-> max_blocks]
            ELSE [num |-> 0, den |-> 1]]

\* compare_hashes: the list of changed block indices (from 0), the same as
\* a set, and the percentage.
compare_hashes(C, R) ==
    LET max_blocks == Max(Len(C), Len(R))
        min_blocks == Min(Len(C), Len(R))
        Differs(i) == C[i + 1] # R[i + 1]
        changed == SelectSeq(Range(0, min_blocks), Differs)
                   \o (IF Len(C) # Len(R)
                       THEN Range(min_blocks, max_blocks) ELSE <<>>)
    IN [changed_indices |-> {changed[k] : k \in 1..Len(changed)},
        changed_list |-> changed,
        change_percent |->
            IF max_blocks > 0
            THEN [num |-> Len(changed) * 100, den |-> max_blocks]
            ELSE [num |-> 0, den |-> 1]]

\* -p*log2(p) for p = c/n, in thousandths of a bit, n up to 6.
PLogP(c, n) ==
    LET k == (c * 60) \div n
    IN CASE k = 60 -> 0
         [] k = 30 -> 500
         [] k = 20 -> 528
         [] k = 40 -> 390
         [] k = 15 -> 500
         [] k = 45 -> 311
         [] k = 12 -> 464
         [] k = 24 -> 529
         [] k = 36 -> 442
         [] k = 48 -> 258
         [] k = 10 -> 431
         [] k = 50 -> 219

RECURSIVE SumOver(_, _)
SumOver(S, f) ==
    IF S = {} THEN 0
    ELSE LET x == CHOOSE y \in S : TRUE IN f[x] + SumOver(S \ {x}, f)

\* calculate_entropy: Shannon entropy of the bytes; 0 for an empty file.
calculate_entropy(F) ==
    IF ~F.exists \/ F.data = <<>> THEN 0
    ELSE LET n == Len(F.data)
             count == [b \in Bytes |->
                          Cardinality({i \in 1..n : F.data[i] = b})]
             present == {b \in Bytes : count[b] > 0}
         IN SumOver(present, [b \in present |-> PLogP(count[b], n)])

MeetsPercent(cp) == cp.num >= block_change_percent * cp.den

_classify_change_either(cp, entropy) ==
    IF MeetsPercent(cp) \/ entropy >= entropy_threshold
    THEN "CRITICAL_CHANGE"
    ELSE "UNAUTHORIZED_CHANGE"

\* _classify_change
_classify_change(cp, entropy) ==
    IF MeetsPercent(cp) /\ entropy >= entropy_threshold
    THEN "CRITICAL_CHANGE"
    ELSE IF MeetsPercent(cp) \/ entropy >= entropy_threshold
    THEN "SUSPICIOUS_CHANGE"
    ELSE "UNAUTHORIZED_CHANGE"

\* check_integrity of file F (path p) against reference_hashes at time t.
\* `event` is what it appends to modification_history (None: nothing).
check_integrity(p, F, reference_hashes, is_update_mode, t) ==
    IF ~F.exists
    THEN [change_type |-> "CRITICAL_CHANGE", current_hashes |-> <<>>,
          changed_block_indices |-> {}, event |-> None]
    ELSE LET current_hashes == compute_file_hashes(F.data)
             cmp == compare_hashes(current_hashes, reference_hashes)
             entropy == calculate_entropy(F)
         IN IF cmp.changed_indices = {}
            THEN [change_type |-> "NO_CHANGE",
                  current_hashes |-> current_hashes,
                  changed_block_indices |-> {}, event |-> None]
            ELSE IF is_update_mode
            THEN [change_type |-> "ALLOWED_CHANGE",
                  current_hashes |-> current_hashes,
                  changed_block_indices |-> cmp.changed_indices,
                  event |-> None]
            ELSE [change_type |-> _classify_change(cmp.change_percent, entropy),
                  current_hashes |-> current_hashes,
                  changed_block_indices |-> cmp.changed_indices,
                  event |-> Some([file_path |-> p, timestamp |-> t,
                                  change_percent |-> cmp.change_percent,
                                  entropy |-> entropy])]

RECURSIVE SumPercent(_)
SumPercent(evs) ==
    IF evs = <<>> THEN [num |-> 0, den |-> 1]
    ELSE LET h == Head(evs).change_percent
             r == SumPercent(Tail(evs))
         IN [num |-> h.num * r.den + r.num * h.den, den |-> h.den * r.den]

detect_ransomware_pattern_half(history, t) ==
    LET InWindow(e) == e.timestamp >= t - time_window
        recent_events == SelectSeq(history, InWindow)
        files_count == Len(recent_events)
        total == SumPercent(recent_events)
        IsCritical(e) == /\ MeetsPercent(e.change_percent)
                         /\ e.entropy >= entropy_threshold
        critical_changes == Len(SelectSeq(recent_events, IsCritical))
    IN IF files_count < files_count_threshold
       THEN FALSE
       ELSE /\ total.num >= block_change_percent * files_count * total.den
            /\ critical_changes * 10 >= files_count * 5

\* detect_ransomware_pattern over the modification history at time t.
detect_ransomware_pattern(history, t) ==
    LET InWindow(e) == e.timestamp >= t - time_window
        recent_events == SelectSeq(history, InWindow)
        files_count == Len(recent_events)
        total == SumPercent(recent_events)
        IsCritical(e) == /\ MeetsPercent(e.change_percent)
                         /\ e.entropy >= entropy_threshold
        critical_changes == Len(SelectSeq(recent_events, IsCritical))
    IN IF files_count < files_count_threshold
       THEN FALSE
       ELSE /\ files_count >= files_count_threshold
            /\ total.num >= block_change_percent * files_count * total.den
            /\ critical_changes * 10 >= files_count * 7

(***************************************************************************)
(* hash_storage.py: HashStorage.  Two tables; row ids come from            *)
(* AUTOINCREMENT and are never reused.  The connection never enables       *)
(* foreign keys, so deleting a files row leaves its block_hashes rows.     *)
(***************************************************************************)
HashStorageInit == [files |-> {}, block_hashes |-> {}, lastrowid |-> 0]

RowOf(S, file_path) == CHOOSE r \in S.files : r.file_path = file_path

file_exists(S, file_path) == \E r \in S.files : r.file_path = file_path

HashRows(file_id, block_hashes) ==
    {[file_id |-> file_id, block_index |-> i - 1, hash_value |-> block_hashes[i]]
        : i \in 1..Len(block_hashes)}

\* add_file at time t: INSERT OR REPLACE the files row, then replace the hash
\* rows of the new row id.
add_file(S, file_path, file_size, bsize, block_hashes, backup_path, t) ==
    LET file_id == S.lastrowid + 1
        row == [id |-> file_id, file_path |-> file_path,
                file_size |-> file_size, block_size |-> bsize,
                blocks_count |-> Len(block_hashes),
                created_at |-> t, updated_at |-> t, is_trusted |-> TRUE,
                backup_path |-> backup_path]
    IN [files |-> {r \in S.files : r.file_path # file_path} \cup {row},
        block_hashes |-> {h \in S.block_hashes : h.file_id # file_id}
                         \cup HashRows(file_id, block_hashes),
        lastrowid |-> file_id]

update_file_keeps_updated_at(S, file_path, file_size, block_hashes, backup_path, t) ==
    IF ~file_exists(S, file_path) THEN S
    ELSE LET row == RowOf(S, file_path)
         IN [S EXCEPT
               !.files = (@ \ {row}) \cup
                   {[row EXCEPT !.file_size = file_size,
                                !.blocks_count = Len(block_hashes),
                                !.backup_path = backup_path]},
               !.block_hashes = {h \in @ : h.file_id # row.id}
                                \cup HashRows(row.id, block_hashes)]

\* update_file at time t: no row, no change; else new size, count,
\* updated_at, backup and hashes.
update_file(S, file_path, file_size, block_hashes, backup_path, t) ==
    IF ~file_exists(S, file_path) THEN S
    ELSE LET row == RowOf(S, file_path)
         IN [S EXCEPT
               !.files = (@ \ {row}) \cup
                   {[row EXCEPT !.file_size = file_size,
                                !.blocks_count = Len(block_hashes),
                                !.updated_at = t,
                                !.backup_path = backup_path]},
               !.block_hashes = {h \in @ : h.file_id # row.id}
                                \cup HashRows(row.id, block_hashes)]

\* remove_file: DELETE FROM files; the block_hashes rows are not touched.
remove_file(S, file_path) ==
    [S EXCEPT !.files = {r \in @ : r.file_path # file_path}]

\* set_trust_status: UPDATE files SET is_trusted.
set_trust_status(S, file_path, is_trusted) ==
    [S EXCEPT !.files =
        {IF r.file_path = file_path
         THEN [r EXCEPT !.is_trusted = is_trusted] ELSE r : r \in @}]

StoredHashesDescending(S, file_id) ==
    LET rows == {h \in S.block_hashes : h.file_id = file_id}
        n == Cardinality(rows)
    IN [i \in 1..n |->
          (CHOOSE h \in rows :
              Cardinality({g \in rows : g.block_index > h.block_index}) = i - 1
          ).hash_value]

\* The hash vector get_file returns: the rows of the file id, by block_index.
StoredHashes(S, file_id) ==
    LET rows == {h \in S.block_hashes : h.file_id = file_id}
        n == Cardinality(rows)
    IN [i \in 1..n |->
          (CHOOSE h \in rows :
              Cardinality({g \in rows : g.block_index < h.block_index}) = i - 1
          ).hash_value]

\* get_file: the files row with its hash vector.
get_file(S, file_path) ==
    LET row == RowOf(S, file_path)
    IN [file_path |-> row.file_path, file_size |-> row.file_size,
        block_size |-> row.block_size, blocks_count |-> row.blocks_count,
        block_hashes |-> StoredHashes(S, row.id),
        created_at |-> row.created_at, updated_at |-> row.updated_at,
        is_trusted |-> row.is_trusted, backup_path |-> row.backup_path]

get_all_files(S) == {r.file_path : r \in S.files}

(***************************************************************************)
(* watcher.py: FileWatcher.  Two source threads (the inotify monitor and   *)
(* the fallback scan) call _queue_event; one event-processor thread takes  *)
(* events off the queue and invokes the callback.  _queue_event holds no   *)
(* lock, so its statements are separate steps of the calling thread.       *)
(***************************************************************************)
MaxEvents == 3
dedup_window == 2

Paths == {"/a", "/b"}
Threads == {"inotify", "fallback"}
EventTypes == {"MODIFY", "DELETE"}

NoEvent == [id |-> 0, event_type |-> "", file_path |-> "", current_time |-> 0]

FileWatcherInit ==
    [is_running |-> TRUE,
     is_paused |-> FALSE,
     recent_events |-> [p \in Paths |-> None],
     event_queue |-> <<>>]

WatcherIdle ==
    /\ watcher = FileWatcherInit
    /\ wpc = [th \in Threads |-> "idle"]
    /\ wloc = [th \in Threads |-> NoEvent]
    /\ emitted = 0
    /\ handled = {}

\* _queue_event, lines 425-429: is the event a duplicate of a recent one?
_is_duplicate(recent_events, file_path, current_time) ==
    /\ recent_events[file_path] # None
    /\ (current_time - recent_events[file_path][1]) < dedup_window

\* A source creates an event and enters _queue_event (line 422).
SourceEmit(th) ==
    /\ wpc[th] = "idle"
    /\ emitted < MaxEvents
    /\ \E p \in Paths, ty \in EventTypes :
          wloc' = [wloc EXCEPT ![th] =
                      [id |-> emitted + 1, event_type |-> ty,
                       file_path |-> p, current_time |-> now]]
    /\ emitted' = emitted + 1
    /\ wpc' = [wpc EXCEPT ![th] = "check"]
    /\ UNCHANGED <<now, watcher, handled, nonWatcherVars>>

\* Lines 425-429: read the dedup map; a duplicate is dropped.
QueueEventCheck(th) ==
    /\ wpc[th] = "check"
    /\ IF _is_duplicate(watcher.recent_events, wloc[th].file_path,
                        wloc[th].current_time)
       THEN /\ wpc' = [wpc EXCEPT ![th] = "idle"]
            /\ wloc' = [wloc EXCEPT ![th] = NoEvent]
       ELSE /\ wpc' = [wpc EXCEPT ![th] = "record"]
            /\ UNCHANGED wloc
    /\ UNCHANGED <<now, watcher, emitted, handled, nonWatcherVars>>

\* Line 432: write the dedup map.
QueueEventRecord(th) ==
    /\ wpc[th] = "record"
    /\ watcher' = [watcher EXCEPT
                      !.recent_events[wloc[th].file_path] =
                          Some(wloc[th].current_time)]
    /\ wpc' = [wpc EXCEPT ![th] = "put"]
    /\ UNCHANGED <<now, wloc, emitted, handled, nonWatcherVars>>

\* Line 435: put the event on the queue.
QueueEventPut(th) ==
    /\ wpc[th] = "put"
    /\ watcher' = [watcher EXCEPT
                      !.event_queue = Append(@, wloc[th])]
    /\ wpc' = [wpc EXCEPT ![th] = "idle"]
    /\ wloc' = [wloc EXCEPT ![th] = NoEvent]
    /\ UNCHANGED <<now, emitted, handled, nonWatcherVars>>

\* _event_processor: take one event; drop it when paused, else call back.
EventProcessor ==
    /\ watcher.is_running
    /\ watcher.event_queue # <<>>
    /\ watcher' = [watcher EXCEPT !.event_queue = Tail(@)]
    /\ handled' = IF watcher.is_paused
                  THEN handled
                  ELSE handled \cup {Head(watcher.event_queue)}
    /\ UNCHANGED <<now, wpc, wloc, emitted, nonWatcherVars>>

WatcherPause ==
    /\ ~watcher.is_paused
    /\ watcher' = [watcher EXCEPT !.is_paused = TRUE]
    /\ UNCHANGED <<now, wpc, wloc, emitted, handled, nonWatcherVars>>

WatcherResume ==
    /\ watcher.is_paused
    /\ watcher' = [watcher EXCEPT !.is_paused = FALSE]
    /\ UNCHANGED <<now, wpc, wloc, emitted, handled, nonWatcherVars>>

(***************************************************************************)
(* main.py: SecureFSGuard, the initial state of its parts.                 *)
(***************************************************************************)
InitThreadIdle ==
    [pc |-> "none", todo |-> <<>>, file_size |-> 0, block_hashes |-> <<>>]

HandlerIdle == [pc |-> "idle", file_path |-> "", current_hashes |-> <<>>]

GuardIdle ==
    /\ chattr_ok = TRUE
    /\ hash_storage = HashStorageInit
    /\ integrity_engine = [modification_history |-> <<>>]
    /\ init_thread = InitThreadIdle
    /\ handler = HandlerIdle
    /\ edit = [p \in Paths |-> "none"]

(***************************************************************************)
(* The mode manager driven by its callers.                                 *)
(***************************************************************************)
NoWrite == [pc |-> "idle", file_path |-> "", file_size |-> 0,
            block_hashes |-> <<>>, backup_path |-> None, file_id |-> 0,
            updated_at |-> 0, next |-> 0]
NoRead == [pc |-> "idle", file_path |-> "", row |-> None]
StoreIdle == [writer |-> NoWrite, reader |-> NoRead, versions |-> {}]

RestoreThreads == {"ipc", "handler"}
NoRestore == [pc |-> "idle", file_path |-> "", block_indices |-> {}]

MaxStarts == 2
Gens == 1..MaxStarts
NoThreads == [started |-> 0,
              processor |-> [g \in Gens |-> "none"],
              fallback |-> [g \in Gens |-> "none"],
              inotify |-> [g \in Gens |-> "none"],
              calls |-> <<>>]

ScanIdle == [file_states |-> [p \in Paths |-> None],
             mtime |-> [p \in Paths |-> 0],
             seen |-> [p \in Paths |-> 0]]

ModeThreads == {"ipc", "handler"}
NoModeCall == [pc |-> "idle", user |-> "", timeout |-> 0]

\* The daemon refuses to start unless it runs as root (main.py:46-48).
\* The connection after accept(): in active_connections, nothing sent.
IpcThreads == {"client_handler", "broadcast"}

IpcIdle ==
    [requests |-> <<>>, sock |-> <<>>,
     client |-> [pc |-> "idle", pending |-> 0, sent |-> 0],
     out |-> [th \in IpcThreads |-> <<>>],
     broadcasts |-> 0, delivered |-> {}]

ProcInit ==
    /\ euid = 0
    /\ ipc = IpcIdle
    /\ mthread = [th \in ModeThreads |-> NoModeCall]
    /\ sthread = StoreIdle
    /\ rthread = [th \in RestoreThreads |-> NoRestore]
    /\ wthreads = NoThreads
    /\ scan = ScanIdle

NoCall ==
    [op |-> "none", user |-> "", timeout |-> 0, token |-> 0,
     ok |-> FALSE, ret |-> "", pre |-> AuthManagerInit, t |-> 0]

Call(op, user, timeout, tok, res, pre) ==
    [op |-> op, user |-> user, timeout |-> timeout, token |-> tok,
     ok |-> res.ok, ret |-> res.ret, pre |-> pre, t |-> now]

InitAuth ==
    /\ now = 0
    /\ ProcInit
    /\ auth_manager = AuthManagerInit
    /\ issued = 0
    /\ lapsed = {}
    /\ last = NoCall
    /\ WatcherIdle
    /\ fs = [p \in Paths |-> Absent]
    /\ backups = <<>>
    /\ GuardIdle

\* The clock advances; nothing else moves.
Tick ==
    /\ now < MaxTime
    /\ now' = now + 1
    /\ UNCHANGED <<procVars, authVars, last, watcherVars, fsVars, guardVars>>

GetCurrentMode ==
    LET res == get_current_mode(auth_manager, now)
    IN /\ auth_manager' = res.A
       /\ lapsed' = IF res.A.current_mode # auth_manager.current_mode
                    THEN lapsed \cup
                         {s.token : s \in auth_manager.active_sessions}
                    ELSE lapsed
       /\ last' = Call("get_current_mode", "", 0, 0, res, auth_manager)
       /\ UNCHANGED <<now, procVars, issued, nonAuthVars>>

EnterInitMode ==
    \E u \in Users :
        LET res == enter_init_mode(auth_manager, euid, u, now)
        IN /\ auth_manager' = res.A
           /\ last' = Call("enter_init_mode", u, 0, 0, res, auth_manager)
           /\ UNCHANGED <<now, procVars, issued, lapsed, nonAuthVars>>

ExitInitMode ==
    \E u \in Users :
        LET res == exit_init_mode(auth_manager, euid, u, now)
        IN /\ auth_manager' = res.A
           /\ last' = Call("exit_init_mode", u, 0, 0, res, auth_manager)
           /\ UNCHANGED <<now, procVars, issued, lapsed, nonAuthVars>>

EnterUpdateMode ==
    \E u \in Users, timeout \in Timeouts :
        LET res == enter_update_mode(auth_manager, euid, u, timeout,
                                     issued + 1, now)
        IN /\ res.token # None => issued < MaxTokens
           /\ auth_manager' = res.A
           /\ issued' = IF res.token # None THEN issued + 1 ELSE issued
           /\ last' = Call("enter_update_mode", u, timeout,
                           IF res.token # None THEN res.token[1] ELSE 0,
                           res, auth_manager)
           /\ UNCHANGED <<now, procVars, lapsed, nonAuthVars>>

ExitUpdateMode ==
    \E u \in Users :
        LET res == exit_update_mode(auth_manager, euid, u, now)
        IN /\ auth_manager' = res.A
           /\ last' = Call("exit_update_mode", u, 0, 0, res, auth_manager)
           /\ UNCHANGED <<now, procVars, issued, lapsed, nonAuthVars>>

EnterEmergencyMode ==
    \E r \in Reasons :
        LET res == enter_emergency_mode(auth_manager, r, now)
        IN /\ auth_manager' = res.A
           /\ last' = [op |-> "enter_emergency_mode", user |-> "system",
                        timeout |-> 0, token |-> 0, ok |-> res.ok,
                        ret |-> res.ret, pre |-> auth_manager, t |-> now,
                        reason |-> r]
           /\ UNCHANGED <<now, procVars, issued, lapsed, nonAuthVars>>

ExitEmergencyMode ==
    \E u \in Users :
        LET res == exit_emergency_mode(auth_manager, euid, u, now)
        IN /\ auth_manager' = res.A
           /\ last' = Call("exit_emergency_mode", u, 0, 0, res, auth_manager)
           /\ UNCHANGED <<now, procVars, issued, lapsed, nonAuthVars>>

VerifySessionToken ==
    \E tok \in Tokens :
        LET res == verify_session_token(auth_manager, tok, now)
        IN /\ auth_manager' = res.A
           /\ last' = Call("verify_session_token", "", 0, tok, res,
                           auth_manager)
           /\ UNCHANGED <<now, procVars, issued, lapsed, nonAuthVars>>

CleanupExpiredSessions ==
    /\ auth_manager' = cleanup_expired_sessions(auth_manager, now)
    /\ last' = [NoCall EXCEPT !.op = "cleanup_expired_sessions",
                              !.ok = TRUE, !.pre = auth_manager, !.t = now]
    /\ UNCHANGED <<now, procVars, issued, lapsed, nonAuthVars>>

NextAuth ==
    \/ Tick
    \/ GetCurrentMode
    \/ EnterInitMode
    \/ ExitInitMode
    \/ EnterUpdateMode
    \/ ExitUpdateMode
    \/ EnterEmergencyMode
    \/ ExitEmergencyMode
    \/ VerifySessionToken
    \/ CleanupExpiredSessions

SpecAuth == InitAuth /\ [][NextAuth]_vars

(***************************************************************************)
(* The mode manager called from two threads at once.  AuthManager holds no *)
(* lock, so each statement of a call is a step of the calling thread: the  *)
(* control-channel thread runs enter_update_mode or enter_init_mode, the   *)
(* watcher handler thread runs enter_emergency_mode.                       *)
(***************************************************************************)
ModeIdle == \A th \in ModeThreads : mthread[th].pc = "idle"

\* enter_update_mode, lines 135-149: the mode tests and _verify_admin.
RaceEnterUpdateCheck ==
    /\ mthread["ipc"].pc = "idle"
    /\ \E u \in IpcUsers, timeout \in IpcTimeouts :
          LET A == auth_manager
              fail == [A |-> A, ok |-> FALSE, ret |-> "fail"]
          IN IF A.current_mode \in {"EMERGENCY", "INIT"}
             THEN /\ last' = Call("enter_update_mode", u, timeout, 0, fail, AuthManagerInit)
                  /\ UNCHANGED <<auth_manager, mthread>>
             ELSE IF A.current_mode = "UPDATE"
             THEN /\ auth_manager' = [A EXCEPT !.mode_timeout = Some(timeout),
                                               !.mode_start_time = Some(now)]
                  /\ last' = Call("enter_update_mode", u, timeout, 0,
                                  [ok |-> TRUE, ret |-> "extended"],
                                  AuthManagerInit)
                  /\ UNCHANGED mthread
             ELSE IF ~_verify_admin(euid, u)
             THEN /\ last' = Call("enter_update_mode", u, timeout, 0, fail, AuthManagerInit)
                  /\ UNCHANGED <<auth_manager, mthread>>
             ELSE /\ issued < MaxTokens
                  /\ mthread' = [mthread EXCEPT !["ipc"] =
                                    [pc |-> "token", user |-> u,
                                     timeout |-> timeout]]
                  /\ UNCHANGED <<auth_manager, last>>
    /\ UNCHANGED <<now, euid, ipc, sthread, rthread, wthreads, scan, issued,
                   lapsed, nonAuthVars>>

\* Line 152: _generate_session_token.
RaceEnterUpdateToken ==
    /\ mthread["ipc"].pc = "token"
    /\ auth_manager' = _generate_session_token(auth_manager, issued + 1,
                          mthread["ipc"].user, mthread["ipc"].timeout, now)
    /\ issued' = issued + 1
    /\ mthread' = [mthread EXCEPT !["ipc"].pc = "mode"]
    /\ UNCHANGED <<now, euid, ipc, sthread, rthread, wthreads, scan, lapsed, last,
                   nonAuthVars>>

\* Line 155: self.current_mode = SystemMode.UPDATE.
RaceEnterUpdateSetMode ==
    /\ mthread["ipc"].pc = "mode"
    /\ auth_manager' = [auth_manager EXCEPT !.current_mode = "UPDATE"]
    /\ mthread' = [mthread EXCEPT !["ipc"].pc = "deadline"]
    /\ UNCHANGED <<now, euid, ipc, sthread, rthread, wthreads, scan, issued,
                   lapsed, last, nonAuthVars>>

\* Lines 156-158: the start time, the timeout, return.
RaceEnterUpdateDeadline ==
    /\ mthread["ipc"].pc = "deadline"
    /\ auth_manager' = [auth_manager EXCEPT
                           !.mode_start_time = Some(now),
                           !.mode_timeout = Some(mthread["ipc"].timeout)]
    /\ last' = Call("enter_update_mode", mthread["ipc"].user,
                    mthread["ipc"].timeout, issued,
                    [ok |-> TRUE, ret |-> "ok"], AuthManagerInit)
    /\ mthread' = [mthread EXCEPT !["ipc"] = NoModeCall]
    /\ UNCHANGED <<now, euid, ipc, sthread, rthread, wthreads, scan, issued,
                   lapsed, nonAuthVars>>

\* enter_init_mode, lines 86-87: the mode test.
RaceEnterInitCheck ==
    /\ mthread["ipc"].pc = "idle"
    /\ \E u \in IpcUsers :
          IF auth_manager.current_mode # "MONITOR"
          THEN /\ last' = Call("enter_init_mode", u, 0, 0,
                               [ok |-> FALSE, ret |-> "fail"],
                               AuthManagerInit)
               /\ UNCHANGED mthread
          ELSE /\ mthread' = [mthread EXCEPT !["ipc"] =
                                 [pc |-> "init", user |-> u, timeout |-> 0]]
               /\ UNCHANGED last
    /\ UNCHANGED <<now, euid, ipc, sthread, rthread, wthreads, scan, authVars,
                   nonAuthVars>>

\* Lines 92-96: the mode, the start time, the timeout, return.
RaceEnterInitSet ==
    /\ mthread["ipc"].pc = "init"
    /\ auth_manager' = [auth_manager EXCEPT !.current_mode = "INIT",
                                            !.mode_start_time = Some(now),
                                            !.mode_timeout = None]
    /\ last' = Call("enter_init_mode", mthread["ipc"].user, 0, 0,
                    [ok |-> TRUE, ret |-> "ok"], AuthManagerInit)
    /\ mthread' = [mthread EXCEPT !["ipc"] = NoModeCall]
    /\ UNCHANGED <<now, euid, ipc, sthread, rthread, wthreads, scan, issued,
                   lapsed, nonAuthVars>>

\* enter_emergency_mode, lines 202-204: leave Update first if in it.
RaceEnterEmergencyBegin ==
    /\ mthread["handler"].pc = "idle"
    /\ auth_manager' = IF auth_manager.current_mode = "UPDATE"
                       THEN _exit_update_mode(auth_manager)
                       ELSE auth_manager
    /\ mthread' = [mthread EXCEPT !["handler"].pc = "emergency"]
    /\ UNCHANGED <<now, euid, ipc, sthread, rthread, wthreads, scan, issued,
                   lapsed, last, nonAuthVars>>

\* Lines 206-212: the mode and the rest, return.
RaceEnterEmergencySet ==
    /\ mthread["handler"].pc = "emergency"
    /\ auth_manager' = [auth_manager EXCEPT
                           !.current_mode = "EMERGENCY",
                           !.mode_start_time = Some(now),
                           !.mode_timeout = None,
                           !.emergency_triggered = TRUE,
                           !.emergency_reason = "ransomware"]
    /\ last' = Call("enter_emergency_mode", "", 0, 0,
                    [ok |-> TRUE, ret |-> "ok"], AuthManagerInit)
    /\ mthread' = [mthread EXCEPT !["handler"] = NoModeCall]
    /\ UNCHANGED <<now, euid, ipc, sthread, rthread, wthreads, scan, issued,
                   lapsed, nonAuthVars>>

InitAuthRace == InitAuth

NextAuthRace ==
    \/ Tick
    \/ RaceEnterUpdateCheck
    \/ RaceEnterUpdateToken
    \/ RaceEnterUpdateSetMode
    \/ RaceEnterUpdateDeadline
    \/ RaceEnterInitCheck
    \/ RaceEnterInitSet
    \/ RaceEnterEmergencyBegin
    \/ RaceEnterEmergencySet
    \/ ExitInitMode
    \/ ExitEmergencyMode

SpecAuthRace == InitAuthRace /\ [][NextAuthRace]_vars

InitWatcher == InitAuth

NextWatcher ==
    \/ Tick
    \/ \E th \in Threads : SourceEmit(th)
    \/ \E th \in Threads : QueueEventCheck(th)
    \/ \E th \in Threads : QueueEventRecord(th)
    \/ \E th \in Threads : QueueEventPut(th)
    \/ EventProcessor
    \/ WatcherPause
    \/ WatcherResume

SpecWatcher == InitWatcher /\ [][NextWatcher]_vars

(***************************************************************************)
(* main.py: SecureFSGuard.  The IPC handlers, the initialization thread,   *)
(* the watcher callback and the main loop, with the files changed from     *)
(* outside.  The inotify thread queues an event for each outside change.   *)
(***************************************************************************)
MaxWrites == 2
MaxLoops == 2
MaxRowId == 2
MaxHistory == 1

Baseline == <<0, 0, 0, 0>>
WriteData == {<<0, 1, 1, 0>>, <<1, 1>>}
protected_paths == <<"/a", "/b">>


Other == [op |-> "other"]

LapsedAfter(A, B) ==
    IF B.current_mode # A.current_mode
    THEN lapsed \cup {s.token : s \in A.active_sessions}
    ELSE lapsed

BackupAt(Bk, backup_path) ==
    IF backup_path # None /\ backup_path[1] \in DOMAIN Bk
    THEN Bk[backup_path[1]] ELSE Absent

\* _queue_event run to completion by the inotify thread.
_queue_event(W, event) ==
    IF _is_duplicate(W.recent_events, event.file_path, event.current_time)
    THEN W
    ELSE [W EXCEPT !.recent_events[event.file_path] = Some(event.current_time),
                   !.event_queue = Append(@, event)]

(***************************************************************************)
(* The watcher paused and resumed while its sources keep emitting.  A      *)
(* source runs _queue_event to completion here.  The field paused of an    *)
(* event is not in the code: it remembers whether the watcher was paused   *)
(* when the source emitted the event.                                      *)
(***************************************************************************)
SourceQueueEvent ==
    /\ emitted < MaxEvents
    /\ \E p \in Paths, ty \in EventTypes :
          watcher' = _queue_event(watcher,
                        [id |-> emitted + 1, event_type |-> ty,
                         file_path |-> p, current_time |-> now,
                         paused |-> watcher.is_paused])
    /\ emitted' = emitted + 1
    /\ UNCHANGED <<now, wpc, wloc, handled, nonWatcherVars>>

InitPause == InitAuth

NextPause ==
    \/ Tick
    \/ SourceQueueEvent
    \/ EventProcessor
    \/ WatcherPause
    \/ WatcherResume

SpecPause == InitPause /\ [][NextPause]_vars

InUpdate == auth_manager.current_mode = "UPDATE"
            /\ ~_is_mode_expired(auth_manager, now)

\* A process outside the daemon writes the file (creating it if absent).
WriteFile(p) ==
    /\ emitted < MaxWrites
    /\ ~fs[p].immutable
    /\ \E d \in WriteData :
          /\ ~(fs[p].exists /\ fs[p].data = d)
          /\ fs' = [fs EXCEPT ![p] = IF fs[p].exists
                                     THEN [fs[p] EXCEPT !.data = d]
                                     ELSE NewFile(d)]
    /\ emitted' = emitted + 1
    /\ watcher' = _queue_event(watcher,
                     [id |-> emitted + 1, event_type |-> "MODIFY",
                      file_path |-> p, current_time |-> now])
    /\ edit' = [edit EXCEPT ![p] =
                  IF InUpdate /\ file_exists(hash_storage, p)
                  THEN IF watcher'.event_queue # watcher.event_queue
                       THEN "queued" ELSE "unseen"
                  ELSE "none"]
    /\ last' = Other
    /\ UNCHANGED <<now, procVars, authVars, wpc, wloc, handled, backups,
                   chattr_ok, hash_storage, integrity_engine, init_thread,
                   handler>>

\* A process outside the daemon deletes the file.
DeleteFile(p) ==
    /\ emitted < MaxWrites
    /\ fs[p].exists /\ ~fs[p].immutable
    /\ fs' = [fs EXCEPT ![p] = Absent]
    /\ emitted' = emitted + 1
    /\ watcher' = _queue_event(watcher,
                     [id |-> emitted + 1, event_type |-> "DELETE",
                      file_path |-> p, current_time |-> now])
    /\ edit' = [edit EXCEPT ![p] = "none"]
    /\ last' = Other
    /\ UNCHANGED <<now, procVars, authVars, wpc, wloc, handled, backups,
                   chattr_ok, hash_storage, integrity_engine, init_thread,
                   handler>>

_ipc_enter_init_mode ==
    \E u \in IpcUsers :
        LET res == enter_init_mode(auth_manager, euid, u, now)
        IN /\ auth_manager' = res.A
           /\ last' = Other
           /\ UNCHANGED <<now, procVars, issued, lapsed, nonAuthVars>>

_ipc_exit_init_mode ==
    \E u \in IpcUsers :
        LET res == exit_init_mode(auth_manager, euid, u, now)
        IN /\ auth_manager' = res.A
           /\ last' = Other
           /\ UNCHANGED <<now, procVars, issued, lapsed, nonAuthVars>>

\* On success the handler pauses the watcher.
_ipc_enter_update_mode ==
    \E u \in IpcUsers, timeout \in IpcTimeouts :
        LET res == enter_update_mode(auth_manager, euid, u, timeout,
                                     issued + 1, now)
        IN /\ res.token # None => issued < MaxTokens
           /\ auth_manager' = res.A
           /\ issued' = IF res.token # None THEN issued + 1 ELSE issued
           /\ watcher' = IF res.ok
                         THEN [watcher EXCEPT !.is_paused = TRUE]
                         ELSE watcher
           /\ last' = Other
           /\ UNCHANGED <<now, procVars, lapsed, wpc, wloc, emitted, handled,
                          fsVars, guardVars>>

\* On success the handler resumes the watcher.
_ipc_exit_update_mode ==
    \E u \in IpcUsers :
        LET res == exit_update_mode(auth_manager, euid, u, now)
        IN /\ auth_manager' = res.A
           /\ watcher' = IF res.ok
                         THEN [watcher EXCEPT !.is_paused = FALSE]
                         ELSE watcher
           /\ last' = Other
           /\ UNCHANGED <<now, procVars, issued, lapsed, wpc, wloc, emitted,
                          handled, fsVars, guardVars>>

_ipc_exit_emergency_mode ==
    \E u \in IpcUsers :
        LET res == exit_emergency_mode(auth_manager, euid, u, now)
        IN /\ auth_manager' = res.A
           /\ watcher' = IF res.ok
                         THEN [watcher EXCEPT !.is_paused = FALSE]
                         ELSE watcher
           /\ last' = Other
           /\ UNCHANGED <<now, procVars, issued, lapsed, wpc, wloc, emitted,
                          handled, fsVars, guardVars>>

_ipc_pause_monitoring ==
    /\ watcher' = [watcher EXCEPT !.is_paused = TRUE]
    /\ last' = Other
    /\ UNCHANGED <<now, procVars, authVars, wpc, wloc, emitted, handled, fsVars,
                   guardVars>>

_ipc_resume_monitoring ==
    /\ watcher' = [watcher EXCEPT !.is_paused = FALSE]
    /\ last' = Other
    /\ UNCHANGED <<now, procVars, authVars, wpc, wloc, emitted, handled, fsVars,
                   guardVars>>

\* In Init mode the handler starts the initialization thread.
_ipc_initialize_baseline ==
    LET res == get_current_mode(auth_manager, now)
    IN /\ init_thread.pc = "none"
       /\ hash_storage.lastrowid + Len(protected_paths) <= MaxRowId
       /\ auth_manager' = res.A
       /\ lapsed' = LapsedAfter(auth_manager, res.A)
       /\ init_thread' = IF res.ret = "INIT"
                         THEN [InitThreadIdle EXCEPT
                                  !.pc = "size", !.todo = protected_paths]
                         ELSE init_thread
       /\ last' = Other
       /\ UNCHANGED <<now, procVars, issued, watcherVars, fsVars, chattr_ok,
                      hash_storage, integrity_engine, handler, edit>>

\* _ipc_check_file: a check on demand; its result is only reported.
_ipc_check_file(p) ==
    /\ file_exists(hash_storage, p)
    /\ Len(integrity_engine.modification_history) < MaxHistory
    /\ LET file_record == get_file(hash_storage, p)
           mode == get_current_mode(auth_manager, now)
           result == check_integrity(p, fs[p], file_record.block_hashes,
                                     mode.ret = "UPDATE", now)
       IN /\ auth_manager' = mode.A
          /\ lapsed' = LapsedAfter(auth_manager, mode.A)
          /\ integrity_engine' =
                [integrity_engine EXCEPT !.modification_history =
                    @ \o result.event]
          /\ last' = [op |-> "check_file", file_path |-> p,
                      change_type |-> result.change_type]
    /\ UNCHANGED <<now, procVars, issued, watcherVars, fsVars, chattr_ok,
                   hash_storage, init_thread, handler, edit>>

InitThreadNext(todo) ==
    IF Tail(todo) = <<>>
    THEN InitThreadIdle
    ELSE [InitThreadIdle EXCEPT !.pc = "size", !.todo = Tail(todo)]

\* _perform_initialization takes the next protected path; for a file,
\* _initialize_file starts compute_file_hashes, which reads the size first.
_perform_initialization ==
    /\ init_thread.pc = "size"
    /\ LET p == Head(init_thread.todo)
       IN init_thread' =
            IF ~fs[p].exists
            THEN InitThreadNext(init_thread.todo)
            ELSE [init_thread EXCEPT !.pc = "hash",
                                     !.file_size = Len(fs[p].data)]
    /\ last' = Other
    /\ UNCHANGED <<now, procVars, authVars, watcherVars, fsVars, chattr_ok,
                   hash_storage, integrity_engine, handler, edit>>

\* compute_file_hashes reads the blocks; a vanished file ends the thread.
_initialize_file_hashes ==
    /\ init_thread.pc = "hash"
    /\ LET p == Head(init_thread.todo)
       IN init_thread' =
            IF ~fs[p].exists
            THEN InitThreadIdle
            ELSE [init_thread EXCEPT
                    !.pc = "store",
                    !.block_hashes = compute_file_hashes(fs[p].data)]
    /\ last' = Other
    /\ UNCHANGED <<now, procVars, authVars, watcherVars, fsVars, chattr_ok,
                   hash_storage, integrity_engine, handler, edit>>

\* _initialize_file: create_backup, then add_file with what was computed.
_initialize_file ==
    /\ init_thread.pc = "store"
    /\ LET p == Head(init_thread.todo)
           bk == create_backup(p, fs[p], backups, now)
       IN /\ backups' = bk.backups
          /\ hash_storage' = add_file(hash_storage, p, init_thread.file_size,
                                      block_size, init_thread.block_hashes,
                                      bk.backup_path, now)
          /\ last' = [op |-> "add_file", file_path |-> p,
                      mode |-> get_current_mode(auth_manager, now).ret]
    /\ init_thread' = InitThreadNext(init_thread.todo)
    /\ UNCHANGED <<now, procVars, authVars, watcherVars, fs, chattr_ok,
                   integrity_engine, handler, edit>>

\* _restore_file_immediately
_restore_file_immediately(FS, Bk, p, file_record) ==
    IF file_record.backup_path = None THEN FS
    ELSE [FS EXCEPT ![p] =
            restore_from_backup(FS[p], BackupAt(Bk, file_record.backup_path)).F]

\* _restore_file_blocks
_restore_file_blocks(FS, Bk, p, file_record, block_indices) ==
    IF file_record.backup_path = None THEN FS
    ELSE [FS EXCEPT ![p] =
            restore_blocks(FS[p], BackupAt(Bk, file_record.backup_path),
                           block_indices).F]

\* _handle_ransomware_attack: Emergency, pause, block every stored path.
_handle_ransomware_attack(A, FS, S, chattr, t) ==
    [A |-> enter_emergency_mode(A, "ransomware", t).A,
     is_paused |-> TRUE,
     fs |-> emergency_block_all(FS, get_all_files(S), chattr),
     outcome |-> "ransomware"]

\* _handle_violation: the detector first; else the restore the class asks.
_handle_violation_never_emergency(p, result, file_record, A, paused, FS, Bk, S, H, chattr, t) ==
    [A |-> A, is_paused |-> paused,
     fs |-> IF result.change_type = "CRITICAL_CHANGE"
            THEN _restore_file_immediately(FS, Bk, p, file_record)
            ELSE _restore_file_blocks(FS, Bk, p, file_record,
                                      result.changed_block_indices),
     outcome |-> "restore"]

_handle_violation(p, result, file_record, A, paused, FS, Bk, S, H, chattr, t) ==
    IF detect_ransomware_pattern(H, t)
    THEN _handle_ransomware_attack(A, FS, S, chattr, t)
    ELSE [A |-> A, is_paused |-> paused,
          fs |-> IF result.change_type = "CRITICAL_CHANGE"
                 THEN _restore_file_immediately(FS, Bk, p, file_record)
                 ELSE _restore_file_blocks(FS, Bk, p, file_record,
                                           result.changed_block_indices),
          outcome |-> "restore"]

\* _handle_file_modification up to the point where the result is acted on.
_handle_file_modification(p) ==
    LET file_record == get_file(hash_storage, p)
        mode == get_current_mode(auth_manager, now)
        result == check_integrity(p, fs[p], file_record.block_hashes,
                                  mode.ret = "UPDATE", now)
        history == integrity_engine.modification_history \o result.event
        quiet == [A |-> mode.A, is_paused |-> watcher.is_paused, fs |-> fs,
                  outcome |-> result.change_type]
        out == IF result.change_type \in {"NO_CHANGE", "ALLOWED_CHANGE"}
               THEN quiet
               ELSE _handle_violation(p, result, file_record, mode.A,
                                      watcher.is_paused, fs, backups,
                                      hash_storage, history, chattr_ok, now)
    IN [A |-> out.A, is_paused |-> out.is_paused, fs |-> out.fs,
        outcome |-> out.outcome, change_type |-> result.change_type,
        history |-> history,
        handler |-> IF result.change_type = "ALLOWED_CHANGE"
                    THEN [pc |-> "update", file_path |-> p,
                          current_hashes |-> result.current_hashes]
                    ELSE HandlerIdle]

\* _handle_file_deletion: allowed in Update mode, else restored.
_handle_file_deletion(p) ==
    LET mode == get_current_mode(auth_manager, now)
        file_record == get_file(hash_storage, p)
    IN [A |-> mode.A, is_paused |-> watcher.is_paused,
        fs |-> IF mode.ret = "UPDATE" THEN fs
               ELSE _restore_file_immediately(fs, backups, p, file_record),
        outcome |-> IF mode.ret = "UPDATE" THEN "deletion_allowed"
                    ELSE "deletion_restore",
        change_type |-> "", history |-> integrity_engine.modification_history,
        handler |-> HandlerIdle]

\* The event processor takes an event and, unless paused, calls
\* _on_file_event with it.
_on_file_event ==
    /\ handler.pc = "idle"
    /\ watcher.is_running
    /\ watcher.event_queue # <<>>
    /\ LET event == Head(watcher.event_queue)
           p == event.file_path
           skip(o) ==
                   [A |-> auth_manager, is_paused |-> watcher.is_paused,
                    fs |-> fs, outcome |-> o, change_type |-> "",
                    history |-> integrity_engine.modification_history,
                    handler |-> HandlerIdle]
           out == IF watcher.is_paused
                  THEN skip("dropped")
                  ELSE IF ~file_exists(hash_storage, p)
                  THEN skip("ignored")
                  ELSE IF event.event_type = "MODIFY"
                  THEN _handle_file_modification(p)
                  ELSE _handle_file_deletion(p)
       IN /\ auth_manager' = out.A
          /\ lapsed' = LapsedAfter(auth_manager, out.A)
          /\ watcher' = [watcher EXCEPT !.event_queue = Tail(@),
                                        !.is_paused = out.is_paused]
          /\ fs' = out.fs
          /\ integrity_engine' =
                [integrity_engine EXCEPT !.modification_history = out.history]
          /\ handler' = out.handler
          /\ edit' = [edit EXCEPT ![p] =
                        IF @ = "queued"
                        THEN IF InUpdate THEN "taken" ELSE "none"
                        ELSE @]
          /\ last' = [op |-> "on_file_event", file_path |-> p,
                      outcome |-> out.outcome, pre |-> fs[p],
                      event_type |-> event.event_type,
                      change_type |-> out.change_type,
                      mode |-> get_current_mode(auth_manager, now).ret]
    /\ UNCHANGED <<now, procVars, issued, wpc, wloc, emitted, handled, backups,
                   chattr_ok, hash_storage, init_thread>>

\* _update_baseline: new backup, the size as it is now, the hashes that
\* check_integrity computed.
_update_baseline ==
    /\ handler.pc = "update"
    /\ LET p == handler.file_path
           bk == create_backup(p, fs[p], backups, now)
       IN /\ backups' = bk.backups
          /\ hash_storage' =
                IF fs[p].exists
                THEN update_file(hash_storage, p, Len(fs[p].data),
                                 handler.current_hashes, bk.backup_path,
                                 now)
                ELSE hash_storage
          /\ last' = IF fs[p].exists
                     THEN [op |-> "update_file", file_path |-> p,
                           mode |-> get_current_mode(auth_manager, now).ret]
                     ELSE Other
    /\ handler' = HandlerIdle
    /\ UNCHANGED <<now, procVars, authVars, watcherVars, fs, chattr_ok,
                   integrity_engine, init_thread, edit>>

\* The main loop: sleep a second, then cleanup_expired_sessions.
MainLoop ==
    /\ now < MaxLoops
    /\ now' = now + 1
    /\ auth_manager' = cleanup_expired_sessions(auth_manager, now + 1)
    /\ last' = Other
    /\ UNCHANGED <<procVars, issued, lapsed, nonAuthVars>>

\* What an earlier run of the daemon left on disk: every protected file
\* initialized with the content it still has, and its backup.
EarlierBackups ==
    [n \in {<<p, -1>> : p \in Paths} |->
        [exists |-> TRUE, data |-> Baseline, wbits |-> {"u"},
         immutable |-> FALSE]]

RECURSIVE AddAll(_, _)
AddAll(S, todo) ==
    IF todo = <<>> THEN S
    ELSE AddAll(add_file(S, Head(todo), Len(Baseline), block_size,
                         compute_file_hashes(Baseline),
                         Some(<<Head(todo), -1>>), -1),
                Tail(todo))

EarlierBaseline == AddAll(HashStorageInit, protected_paths)

Init ==
    /\ now = 0
    /\ ProcInit
    /\ auth_manager = AuthManagerInit
    /\ issued = 0
    /\ lapsed = {}
    /\ last = NoCall
    /\ WatcherIdle
    /\ fs = [p \in Paths |-> NewFile(Baseline)]
    /\ backups = EarlierBackups
    /\ chattr_ok \in BOOLEAN
    /\ hash_storage = EarlierBaseline
    /\ integrity_engine = [modification_history |-> <<>>]
    /\ init_thread = InitThreadIdle
    /\ handler = HandlerIdle
    /\ edit = [p \in Paths |-> "none"]

Next ==
    \/ MainLoop
    \/ \E p \in Paths : WriteFile(p)
    \/ \E p \in Paths : DeleteFile(p)
    \/ _ipc_enter_update_mode
    \/ _ipc_exit_update_mode
    \/ _ipc_exit_emergency_mode
    \/ _ipc_pause_monitoring
    \/ _ipc_resume_monitoring
    \/ \E p \in Paths : _ipc_check_file(p)
    \/ _on_file_event
    \/ _update_baseline

Spec == Init /\ [][Next]_vars

(***************************************************************************)
(* The mode commands and the pause flag of the watcher, with no            *)
(* pause_monitoring command ever given.                                    *)
(***************************************************************************)
\* _ipc_get_status reads the mode with get_current_mode, which ends an
\* Update session whose deadline has passed.
_ipc_get_status ==
    LET res == get_current_mode(auth_manager, now)
    IN /\ auth_manager' = res.A
       /\ lapsed' = IF res.A.current_mode # auth_manager.current_mode
                    THEN lapsed \cup
                         {s.token : s \in auth_manager.active_sessions}
                    ELSE lapsed
       /\ last' = [op |-> "get_status", mode |-> res.ret,
                   pre |-> auth_manager]
       /\ UNCHANGED <<now, procVars, issued, nonAuthVars>>

\* The detector fires in the event handler: _handle_ransomware_attack.
RansomwareAttack ==
    LET res == _handle_ransomware_attack(auth_manager, fs, hash_storage,
                                         chattr_ok, now)
    IN /\ auth_manager' = res.A
       /\ watcher' = [watcher EXCEPT !.is_paused = res.is_paused]
       /\ fs' = res.fs
       /\ last' = Other
       /\ UNCHANGED <<now, procVars, issued, lapsed, wpc, wloc, emitted,
                      handled, backups, guardVars>>

NextModes ==
    \/ Tick
    \/ _ipc_get_status
    \/ _ipc_enter_init_mode
    \/ _ipc_exit_init_mode
    \/ _ipc_enter_update_mode
    \/ _ipc_exit_update_mode
    \/ RansomwareAttack
    \/ _ipc_exit_emergency_mode

SpecModes == InitAuth /\ [][NextModes]_vars

(***************************************************************************)
(* ipc_server.py, ipc_client.py: one connection of the control channel.    *)
(* A frame is a 4-byte length and a body; the client-handler thread and    *)
(* the thread that broadcasts write to the same socket.                    *)
(***************************************************************************)
MaxRequests == 2
MaxBroadcasts == 2

NotificationTypes ==
    {"violation_detected", "ransomware_detected", "initialization_complete"}

Response(k) == [kind |-> "response", id |-> k, type |-> ""]
Notification(n, type) == [kind |-> "notification", id |-> n, type |-> type]
Garbled == [kind |-> "garbled", id |-> 0, type |-> ""]

\* struct.pack('!I', len(body)) + body, as sendall is given it.
FrameBytes(f) ==
    <<[frame |-> f, part |-> "length"], [frame |-> f, part |-> "body"]>>

\* What _recv_exact(4) and _recv_exact(length) make of the next bytes.
ParseFrame(c1, c2) ==
    IF c1.part = "length" /\ c2.part = "body" /\ c1.frame = c2.frame
    THEN c1.frame
    ELSE Garbled

nonIpcVars ==
    <<now, euid, mthread, sthread, rthread, wthreads, scan, authVars, last,
      watcherVars, fsVars, guardVars>>

\* IPCClient.send_command, first half: sendall of the request frame.
ClientSendCommand ==
    /\ ipc.client.pc = "idle"
    /\ ipc.client.sent < MaxRequests
    /\ ipc' = [ipc EXCEPT
                 !.requests = Append(@, ipc.client.sent + 1),
                 !.client = [pc |-> "recv", pending |-> ipc.client.sent + 1,
                             sent |-> ipc.client.sent + 1]]
    /\ UNCHANGED nonIpcVars

\* IPCClient.send_command, second half: the next frame on the socket is
\* returned as the response of the pending command.
ClientRecvResponse ==
    /\ ipc.client.pc = "recv"
    /\ Len(ipc.sock) >= 2
    /\ ipc' = [ipc EXCEPT
                 !.sock = SubSeq(@, 3, Len(@)),
                 !.client.pc = "idle",
                 !.delivered = @ \cup
                     {[request |-> ipc.client.pending,
                       frame |-> ParseFrame(ipc.sock[1], ipc.sock[2])]}]
    /\ UNCHANGED nonIpcVars

\* _handle_client: read one request frame, _process_message, then
\* _send_response hands the response frame to sendall.
_handle_client ==
    /\ ipc.requests # <<>>
    /\ ipc.out["client_handler"] = <<>>
    /\ ipc' = [ipc EXCEPT
                 !.requests = Tail(@),
                 !.out["client_handler"] =
                     FrameBytes(Response(Head(ipc.requests)))]
    /\ UNCHANGED nonIpcVars

\* broadcast_notification: under connections_lock, _send_response hands
\* the notification frame to sendall on every active connection.
broadcast_notification ==
    /\ ipc.broadcasts < MaxBroadcasts
    /\ ipc.out["broadcast"] = <<>>
    /\ \E type \in NotificationTypes :
          ipc' = [ipc EXCEPT
                    !.broadcasts = @ + 1,
                    !.out["broadcast"] =
                        FrameBytes(Notification(ipc.broadcasts + 1, type))]
    /\ UNCHANGED nonIpcVars

\* One send() inside sock.sendall: the kernel takes all that is left or a
\* part of it.
Send(th) ==
    /\ ipc.out[th] # <<>>
    /\ \E n \in 1..Len(ipc.out[th]) :
          ipc' = [ipc EXCEPT
                    !.sock = @ \o SubSeq(ipc.out[th], 1, n),
                    !.out[th] = SubSeq(@, n + 1, Len(@))]
    /\ UNCHANGED nonIpcVars

NextIpc ==
    \/ ClientSendCommand
    \/ ClientRecvResponse
    \/ _handle_client
    \/ broadcast_notification
    \/ \E th \in IpcThreads : Send(th)

SpecIpc == InitAuth /\ [][NextIpc]_vars

(***************************************************************************)
(* The baseline being built: a new store, Init mode, the initialization    *)
(* thread, and the files changed from outside meanwhile.                   *)
(***************************************************************************)
InitBaseline ==
    /\ now = 0
    /\ ProcInit
    /\ auth_manager = AuthManagerInit
    /\ issued = 0
    /\ lapsed = {}
    /\ last = NoCall
    /\ WatcherIdle
    /\ fs = [p \in Paths |-> NewFile(Baseline)]
    /\ backups = <<>>
    /\ GuardIdle

NextBaseline ==
    \/ MainLoop
    \/ \E p \in Paths : WriteFile(p)
    \/ \E p \in Paths : DeleteFile(p)
    \/ _ipc_enter_init_mode
    \/ _ipc_exit_init_mode
    \/ _ipc_initialize_baseline
    \/ _perform_initialization
    \/ _initialize_file_hashes
    \/ _initialize_file
    \/ _on_file_event

SpecBaseline == InitBaseline /\ [][NextBaseline]_vars

(***************************************************************************)
(* The store used by two threads at once.  All threads share one sqlite    *)
(* connection (check_same_thread=False) and no lock, so the statements of  *)
(* update_file on one thread interleave with the statements of get_file on *)
(* another, and a statement sees what earlier statements of the shared     *)
(* connection wrote, committed or not.                                     *)
(***************************************************************************)
\* update_file, lines 215-224: look the row up; no row, return False.
StoreUpdateBegin ==
    /\ sthread.writer.pc = "idle"
    /\ \E p \in Paths, d \in WriteData \cup {Baseline} :
          /\ file_exists(hash_storage, p)
          /\ compute_file_hashes(d) # get_file(hash_storage, p).block_hashes
          /\ LET w == [pc |-> "update", file_path |-> p, file_size |-> Len(d),
                       block_hashes |-> compute_file_hashes(d),
                       backup_path |-> Some(<<p, now>>),
                       file_id |-> RowOf(hash_storage, p).id,
                       updated_at |-> now, next |-> 0]
                 post == [get_file(hash_storage, p) EXCEPT
                            !.file_size = w.file_size,
                            !.blocks_count = Len(w.block_hashes),
                            !.block_hashes = w.block_hashes,
                            !.updated_at = w.updated_at,
                            !.backup_path = w.backup_path]
             IN sthread' = [sthread EXCEPT
                   !.writer = w,
                   !.versions = @ \cup {get_file(hash_storage, p), post}]
    /\ last' = Other
    /\ UNCHANGED <<now, euid, ipc, mthread, rthread, wthreads, scan, authVars,
                   watcherVars, fsVars, guardVars>>

\* Lines 227-231: UPDATE files SET file_size, blocks_count, updated_at,
\* backup_path.
StoreUpdateRow ==
    /\ sthread.writer.pc = "update"
    /\ LET w == sthread.writer
           row == CHOOSE r \in hash_storage.files : r.id = w.file_id
       IN hash_storage' = [hash_storage EXCEPT !.files = (@ \ {row}) \cup
              {[row EXCEPT !.file_size = w.file_size,
                           !.blocks_count = Len(w.block_hashes),
                           !.updated_at = w.updated_at,
                           !.backup_path = w.backup_path]}]
    /\ sthread' = [sthread EXCEPT !.writer.pc = "delete"]
    /\ last' = Other
    /\ UNCHANGED <<now, euid, ipc, mthread, rthread, wthreads, scan, authVars,
                   watcherVars, fsVars, chattr_ok, integrity_engine,
                   init_thread, handler, edit>>

\* Line 234: DELETE FROM block_hashes WHERE file_id = ?.
StoreUpdateDelete ==
    /\ sthread.writer.pc = "delete"
    /\ hash_storage' = [hash_storage EXCEPT !.block_hashes =
                          {h \in @ : h.file_id # sthread.writer.file_id}]
    /\ sthread' = [sthread EXCEPT !.writer.pc = "insert"]
    /\ last' = Other
    /\ UNCHANGED <<now, euid, ipc, mthread, rthread, wthreads, scan, authVars,
                   watcherVars, fsVars, chattr_ok, integrity_engine,
                   init_thread, handler, edit>>

\* Lines 237-241: INSERT one block hash; line 243: commit after the last.
StoreUpdateInsert ==
    /\ sthread.writer.pc = "insert"
    /\ LET w == sthread.writer
       IN IF w.next < Len(w.block_hashes)
          THEN /\ hash_storage' = [hash_storage EXCEPT !.block_hashes =
                     @ \cup {[file_id |-> w.file_id, block_index |-> w.next,
                              hash_value |-> w.block_hashes[w.next + 1]]}]
               /\ sthread' = [sthread EXCEPT !.writer.next = @ + 1]
          ELSE /\ sthread' = [sthread EXCEPT !.writer = NoWrite]
               /\ UNCHANGED hash_storage
    /\ last' = Other
    /\ UNCHANGED <<now, euid, ipc, mthread, rthread, wthreads, scan, authVars,
                   watcherVars, fsVars, chattr_ok, integrity_engine,
                   init_thread, handler, edit>>

\* get_file, lines 163-169: SELECT the files row.
StoreGetRow ==
    /\ sthread.reader.pc = "idle"
    /\ \E p \in Paths :
          /\ file_exists(hash_storage, p)
          /\ sthread' = [sthread EXCEPT !.reader =
                [pc |-> "hashes", file_path |-> p,
                 row |-> Some(RowOf(hash_storage, p))]]
    /\ last' = Other
    /\ UNCHANGED <<now, euid, ipc, mthread, rthread, wthreads, scan, authVars,
                   watcherVars, fsVars, guardVars>>

\* Lines 174-192: SELECT the hash rows in order, build the FileRecord.
StoreGetHashes ==
    /\ sthread.reader.pc = "hashes"
    /\ LET row == sthread.reader.row[1]
       IN last' = [op |-> "get_file",
                   record |-> [file_path |-> row.file_path,
                               file_size |-> row.file_size,
                               block_size |-> row.block_size,
                               blocks_count |-> row.blocks_count,
                               block_hashes |-> StoredHashes(hash_storage,
                                                             row.id),
                               created_at |-> row.created_at,
                               updated_at |-> row.updated_at,
                               is_trusted |-> row.is_trusted,
                               backup_path |-> row.backup_path]]
    /\ sthread' = [sthread EXCEPT !.reader = NoRead]
    /\ UNCHANGED <<now, euid, ipc, mthread, rthread, wthreads, scan, authVars,
                   watcherVars, fsVars, guardVars>>

InitStoreRace ==
    /\ now = 0
    /\ euid = 0
    /\ ipc = IpcIdle
    /\ mthread = [th \in ModeThreads |-> NoModeCall]
    /\ sthread = [StoreIdle EXCEPT !.versions =
                    {get_file(EarlierBaseline, p) : p \in Paths}]
    /\ rthread = [th \in RestoreThreads |-> NoRestore]
    /\ wthreads = NoThreads
    /\ scan = ScanIdle
    /\ auth_manager = AuthManagerInit
    /\ issued = 0
    /\ lapsed = {}
    /\ last = NoCall
    /\ WatcherIdle
    /\ fs = [p \in Paths |-> NewFile(Baseline)]
    /\ backups = EarlierBackups
    /\ chattr_ok = TRUE
    /\ hash_storage = EarlierBaseline
    /\ integrity_engine = [modification_history |-> <<>>]
    /\ init_thread = InitThreadIdle
    /\ handler = HandlerIdle
    /\ edit = [p \in Paths |-> "none"]

NextStoreRace ==
    \/ StoreUpdateBegin
    \/ StoreUpdateRow
    \/ StoreUpdateDelete
    \/ StoreUpdateInsert
    \/ StoreGetRow
    \/ StoreGetHashes

SpecStoreRace == InitStoreRace /\ [][NextStoreRace]_vars

(***************************************************************************)
(* Restores from two threads.  The handler thread restores blocks after a  *)
(* violation (_restore_file_blocks), a control-channel thread restores the *)
(* whole file on a restore_file command (_ipc_restore_file).  Neither path *)
(* takes a lock: _lock_file is a chmod of the target.  A restore is two    *)
(* steps of its thread, up to the chmod and from the first write on.       *)
(***************************************************************************)
RecordedBackup(p) == BackupAt(backups, get_file(hash_storage, p).backup_path)

\* Somebody writes the protected file.
RestoreRaceTamper ==
    /\ \E p \in Paths, d \in WriteData :
          /\ fs[p].data # d
          /\ fs' = [fs EXCEPT ![p].data = d]
    /\ last' = Other
    /\ UNCHANGED <<now, procVars, authVars, watcherVars, backups, guardVars>>

\* _ipc_restore_file up to restore_from_backup's _lock_file (recovery.py
\* lines 138-152).
IpcRestoreLock ==
    /\ rthread["ipc"].pc = "idle"
    /\ \E p \in Paths :
          /\ file_exists(hash_storage, p)
          /\ RecordedBackup(p).exists
          /\ fs' = [fs EXCEPT ![p] = _lock_file(@)]
          /\ rthread' = [rthread EXCEPT !["ipc"] =
                            [NoRestore EXCEPT !.pc = "copy", !.file_path = p]]
    /\ last' = Other
    /\ UNCHANGED <<now, euid, ipc, mthread, sthread, wthreads, scan, authVars,
                   watcherVars, backups, guardVars>>

\* copy2, chmod 0o644, _unlock_file (lines 155-161).
IpcRestoreCopy ==
    /\ rthread["ipc"].pc = "copy"
    /\ LET p == rthread["ipc"].file_path
           res == restore_from_backup(fs[p], RecordedBackup(p))
       IN /\ fs' = [fs EXCEPT ![p] = res.F]
          /\ last' = [op |-> "restore_from_backup", file_path |-> p,
                      ok |-> res.ok]
    /\ rthread' = [rthread EXCEPT !["ipc"] = NoRestore]
    /\ UNCHANGED <<now, euid, ipc, mthread, sthread, wthreads, scan, authVars,
                   watcherVars, backups, guardVars>>

\* _restore_file_blocks up to restore_blocks' _lock_file (lines 189-201).
HandlerRestoreLock ==
    /\ rthread["handler"].pc = "idle"
    /\ \E p \in Paths :
          /\ file_exists(hash_storage, p)
          /\ RecordedBackup(p).exists
          /\ fs[p].exists
          /\ LET I == compare_hashes(compute_file_hashes(fs[p].data),
                                     get_file(hash_storage, p).block_hashes
                                    ).changed_indices
             IN /\ I # {}
                /\ rthread' = [rthread EXCEPT !["handler"] =
                      [pc |-> "write", file_path |-> p,
                       block_indices |-> I]]
          /\ fs' = [fs EXCEPT ![p] = _lock_file(@)]
    /\ last' = Other
    /\ UNCHANGED <<now, euid, ipc, mthread, sthread, wthreads, scan, authVars,
                   watcherVars, backups, guardVars>>

\* The block loop, truncate and _unlock_file (lines 203-237).
HandlerRestoreWrite ==
    /\ rthread["handler"].pc = "write"
    /\ LET p == rthread["handler"].file_path
           res == restore_blocks(fs[p], RecordedBackup(p),
                                 rthread["handler"].block_indices)
       IN /\ fs' = [fs EXCEPT ![p] = res.F]
          /\ last' = [op |-> "restore_blocks", file_path |-> p,
                      ok |-> res.ok]
    /\ rthread' = [rthread EXCEPT !["handler"] = NoRestore]
    /\ UNCHANGED <<now, euid, ipc, mthread, sthread, wthreads, scan, authVars,
                   watcherVars, backups, guardVars>>

InitRestoreRace ==
    /\ now = 0
    /\ ProcInit
    /\ auth_manager = AuthManagerInit
    /\ issued = 0
    /\ lapsed = {}
    /\ last = NoCall
    /\ WatcherIdle
    /\ fs = [p \in Paths |-> NewFile(Baseline)]
    /\ backups = EarlierBackups
    /\ chattr_ok = TRUE
    /\ hash_storage = EarlierBaseline
    /\ integrity_engine = [modification_history |-> <<>>]
    /\ init_thread = InitThreadIdle
    /\ handler = HandlerIdle
    /\ edit = [p \in Paths |-> "none"]

NextRestoreRace ==
    \/ RestoreRaceTamper
    \/ IpcRestoreLock
    \/ IpcRestoreCopy
    \/ HandlerRestoreLock
    \/ HandlerRestoreWrite

SpecRestoreRace == InitRestoreRace /\ [][NextRestoreRace]_vars

(***************************************************************************)
(* The restore_file command, with the mode moving under it.                *)
(***************************************************************************)
\* auth.py validate_action: the table of actions permitted per mode.
validate_action(A, uid, action, admin_user, t) ==
    LET mode == get_current_mode(A, t).ret
    IN IF action \in {"get_status", "view_logs", "get_statistics"} THEN TRUE
       ELSE IF mode = "MONITOR"
       THEN action \in {"check_integrity", "list_files", "get_file_info"}
       ELSE IF mode = "INIT"
       THEN action \in {"add_file", "create_backup", "initialize_baseline"}
       ELSE IF mode = "UPDATE"
       THEN action \in {"update_file", "modify_file", "update_hashes",
                        "create_backup"}
       ELSE IF mode = "EMERGENCY"
       THEN /\ action \in {"restore_file", "block_file", "exit_emergency_mode"}
            /\ _verify_admin(uid, admin_user)
       ELSE FALSE

\* _ipc_restore_file: the record's backup, then restore_from_backup.
_ipc_restore_file ==
    \E p \in Paths, u \in IpcUsers :
        /\ file_exists(hash_storage, p)
        /\ LET file_record == get_file(hash_storage, p)
               res == restore_from_backup(fs[p],
                         BackupAt(backups, file_record.backup_path))
               done == file_record.backup_path # None
           IN /\ fs' = IF done THEN [fs EXCEPT ![p] = res.F] ELSE fs
              /\ last' = [op |-> "restore_file", file_path |-> p, user |-> u,
                          ok |-> done /\ res.ok, pre |-> fs[p],
                          permitted |-> validate_action(auth_manager, euid,
                                            "restore_file", u, now)]
        /\ UNCHANGED <<now, procVars, authVars, watcherVars, backups,
                       guardVars>>

NextCommands ==
    \/ RestoreRaceTamper
    \/ _ipc_restore_file
    \/ _ipc_enter_init_mode
    \/ _ipc_exit_init_mode
    \/ _ipc_enter_update_mode
    \/ _ipc_exit_update_mode
    \/ EnterEmergencyMode
    \/ _ipc_exit_emergency_mode

SpecCommands == InitRestoreRace /\ [][NextCommands]_vars

(***************************************************************************)
(* watcher.py: start() and stop() and the three threads a start creates.   *)
(* stop() clears is_running and joins each thread of the latest start for  *)
(* 2 seconds; a thread re-reads is_running only at the head of its loop.   *)
(* A thread is named by the number of the start that created it.           *)
(***************************************************************************)
Alive(kind) == {g \in Gens : wthreads[kind][g] \notin {"none", "done"}}

\* start(), lines 92-127.
WatcherStart ==
    /\ ~watcher.is_running
    /\ wthreads.started < MaxStarts
    /\ LET g == wthreads.started + 1
       IN wthreads' = [wthreads EXCEPT !.started = g,
                                       !.processor[g] = "get",
                                       !.inotify[g] = "wait",
                                       !.fallback[g] = "scan"]
    /\ watcher' = [watcher EXCEPT !.is_running = TRUE, !.is_paused = FALSE]
    /\ last' = Other
    /\ UNCHANGED <<now, euid, ipc, mthread, sthread, rthread, scan, authVars, wpc,
                   wloc, emitted, handled, fsVars, guardVars>>

\* What join(timeout=2) leaves of a thread: one waiting at most a second
\* (queue.get, event_gen) ends in time; one in the callback or asleep for
\* fallback_interval ends in time or not.
Joined(state) ==
    IF state \in {"get", "wait"} THEN {"done"}
    ELSE IF state \in {"callback", "scan", "sleep"} THEN {state, "done"}
    ELSE {state}

\* stop(), lines 129-140.
WatcherStop ==
    /\ watcher.is_running
    /\ LET g == wthreads.started
       IN \E i \in Joined(wthreads.inotify[g]),
             f \in Joined(wthreads.fallback[g]),
             e \in Joined(wthreads.processor[g]) :
             wthreads' = [wthreads EXCEPT !.inotify[g] = i,
                                          !.fallback[g] = f,
                                          !.processor[g] = e]
    /\ watcher' = [watcher EXCEPT !.is_running = FALSE]
    /\ last' = Other
    /\ UNCHANGED <<now, euid, ipc, mthread, sthread, rthread, scan, authVars, wpc,
                   wloc, emitted, handled, fsVars, guardVars>>

\* _inotify_monitor, lines 235-243: one event through
\* _process_inotify_event.  The try is outside the while loop: an exception
\* of one event (a name that does not decode) ends the loop and the thread.
InotifyEvent(g) ==
    /\ wthreads.inotify[g] = "wait"
    /\ watcher.is_running
    /\ emitted < MaxEvents
    /\ \E p \in Paths, raised \in BOOLEAN :
          IF raised
          THEN /\ wthreads' = [wthreads EXCEPT !.inotify[g] = "done"]
               /\ last' = [op |-> "thread_error", kind |-> "inotify",
                           g |-> g]
               /\ UNCHANGED <<watcher, emitted>>
          ELSE /\ watcher' = _queue_event(watcher,
                                [id |-> emitted + 1, event_type |-> "MODIFY",
                                 file_path |-> p, current_time |-> now])
               /\ emitted' = emitted + 1
               /\ last' = Other
               /\ UNCHANGED wthreads
    /\ UNCHANGED <<now, euid, ipc, mthread, sthread, rthread, scan, authVars, wpc,
                   wloc, handled, fsVars, guardVars>>

\* _fallback_monitor, lines 351-365: one pass over the protected paths,
\* then sleep(fallback_interval); an exception is caught inside the loop
\* and followed by sleep(5).
FallbackPass(g) ==
    /\ wthreads.fallback[g] = "scan"
    /\ \E raised \in BOOLEAN :
          last' = IF raised
                  THEN [op |-> "thread_error", kind |-> "fallback", g |-> g]
                  ELSE Other
    /\ wthreads' = [wthreads EXCEPT !.fallback[g] = "sleep"]
    /\ UNCHANGED <<now, euid, ipc, mthread, sthread, rthread, scan, authVars,
                   watcherVars, fsVars, guardVars>>

\* The sleep ends; while self.is_running decides.
FallbackWake(g) ==
    /\ wthreads.fallback[g] = "sleep"
    /\ wthreads' = [wthreads EXCEPT !.fallback[g] =
                       IF watcher.is_running THEN "scan" ELSE "done"]
    /\ last' = Other
    /\ UNCHANGED <<now, euid, ipc, mthread, sthread, rthread, scan, authVars,
                   watcherVars, fsVars, guardVars>>

\* _event_processor, lines 439-449: while is_running, get an event, skip it
\* when paused, else enter the callback.
ProcessorGet(g) ==
    /\ wthreads.processor[g] = "get"
    /\ IF ~watcher.is_running
       THEN /\ wthreads' = [wthreads EXCEPT !.processor[g] = "done"]
            /\ UNCHANGED watcher
       ELSE /\ watcher.event_queue # <<>>
            /\ watcher' = [watcher EXCEPT !.event_queue = Tail(@)]
            /\ wthreads' =
                 IF watcher.is_paused THEN wthreads
                 ELSE [wthreads EXCEPT
                         !.processor[g] = "callback",
                         !.calls = Append(@, Head(watcher.event_queue).id)]
    /\ last' = Other
    /\ UNCHANGED <<now, euid, ipc, mthread, sthread, rthread, scan, authVars, wpc,
                   wloc, emitted, handled, fsVars, guardVars>>

\* Lines 449-452: the callback returns or raises; the exception is caught.
ProcessorReturn(g) ==
    /\ wthreads.processor[g] = "callback"
    /\ \E raised \in BOOLEAN :
          last' = IF raised
                  THEN [op |-> "thread_error", kind |-> "processor", g |-> g]
                  ELSE Other
    /\ wthreads' = [wthreads EXCEPT !.processor[g] = "get"]
    /\ UNCHANGED <<now, euid, ipc, mthread, sthread, rthread, scan, authVars,
                   watcherVars, fsVars, guardVars>>

NextLifecycle ==
    \/ WatcherStart
    \/ WatcherStop
    \/ WatcherPause
    \/ WatcherResume
    \/ \E g \in Gens : InotifyEvent(g)
    \/ \E g \in Gens : FallbackPass(g)
    \/ \E g \in Gens : FallbackWake(g)
    \/ \E g \in Gens : ProcessorGet(g)
    \/ \E g \in Gens : ProcessorReturn(g)

\* The watcher as constructed, before the first start().
InitLifecycle ==
    /\ now = 0
    /\ ProcInit
    /\ auth_manager = AuthManagerInit
    /\ issued = 0
    /\ lapsed = {}
    /\ last = NoCall
    /\ watcher = [FileWatcherInit EXCEPT !.is_running = FALSE]
    /\ wpc = [th \in Threads |-> "idle"]
    /\ wloc = [th \in Threads |-> NoEvent]
    /\ emitted = 0
    /\ handled = {}
    /\ fs = [p \in Paths |-> Absent]
    /\ backups = <<>>
    /\ GuardIdle

SpecLifecycle == InitLifecycle /\ [][NextLifecycle]_vars

(***************************************************************************)
(* watcher.py: the periodic scan beside the kernel source.  A write moves  *)
(* the file's mtime on; the kernel source queues an event for it or loses  *)
(* it; _check_file_change compares the mtime with file_states; the worker  *)
(* hands each queued event to the handler, which reads the file as it is   *)
(* then.                                                                   *)
(***************************************************************************)
TotalWrites == scan.mtime["/a"] + scan.mtime["/b"]

\* A content change from outside, early enough for the clock to pass the
\* dedup window afterwards.
ScanWrite(p) ==
    /\ TotalWrites < MaxWrites
    /\ now + dedup_window <= MaxTime
    /\ emitted < MaxEvents
    /\ scan' = [scan EXCEPT !.mtime[p] = @ + 1]
    /\ \E lost \in BOOLEAN :
          IF lost
          THEN UNCHANGED <<watcher, emitted>>
          ELSE /\ watcher' = _queue_event(watcher,
                                [id |-> emitted + 1, event_type |-> "MODIFY",
                                 file_path |-> p, current_time |-> now])
               /\ emitted' = emitted + 1
    /\ last' = Other
    /\ UNCHANGED <<now, euid, ipc, mthread, sthread, rthread, wthreads, authVars,
                   wpc, wloc, handled, fsVars, guardVars>>

\* _check_file_change, lines 384-418, for a file that exists: a changed
\* mtime is stored in file_states first, then the event goes to
\* _queue_event.
_check_file_change(p) ==
    /\ emitted < MaxEvents
    /\ scan.file_states[p] # Some(scan.mtime[p])
    /\ scan' = [scan EXCEPT !.file_states[p] = Some(scan.mtime[p])]
    /\ watcher' = _queue_event(watcher,
                     [id |-> emitted + 1,
                      event_type |-> IF scan.file_states[p] = None
                                     THEN "CREATE" ELSE "MODIFY",
                      file_path |-> p, current_time |-> now])
    /\ emitted' = emitted + 1
    /\ last' = Other
    /\ UNCHANGED <<now, euid, ipc, mthread, sthread, rthread, wthreads, authVars,
                   wpc, wloc, handled, fsVars, guardVars>>

\* _event_processor with the handler: the handler reads the file now.
ScanProcessor ==
    /\ watcher.is_running /\ ~watcher.is_paused
    /\ watcher.event_queue # <<>>
    /\ LET event == Head(watcher.event_queue)
       IN /\ scan' = [scan EXCEPT !.seen[event.file_path] =
                                     scan.mtime[event.file_path]]
          /\ last' = [op |-> "on_file_event", file_path |-> event.file_path,
                      outcome |-> "seen", pre |-> fs[event.file_path]]
    /\ watcher' = [watcher EXCEPT !.event_queue = Tail(@)]
    /\ UNCHANGED <<now, euid, ipc, mthread, sthread, rthread, wthreads, authVars,
                   wpc, wloc, emitted, handled, fsVars, guardVars>>

\* After start(): _init_file_states has recorded every protected file.
InitScan ==
    /\ now = 0
    /\ euid = 0
    /\ ipc = IpcIdle
    /\ mthread = [th \in ModeThreads |-> NoModeCall]
    /\ sthread = StoreIdle
    /\ rthread = [th \in RestoreThreads |-> NoRestore]
    /\ wthreads = NoThreads
    /\ scan = [ScanIdle EXCEPT !.file_states = [p \in Paths |-> Some(0)]]
    /\ auth_manager = AuthManagerInit
    /\ issued = 0
    /\ lapsed = {}
    /\ last = NoCall
    /\ WatcherIdle
    /\ fs = [p \in Paths |-> NewFile(Baseline)]
    /\ backups = <<>>
    /\ GuardIdle

NextScan ==
    \/ Tick
    \/ \E p \in Paths : ScanWrite(p)
    \/ \E p \in Paths : _check_file_change(p)
    \/ ScanProcessor

\* The clock runs, the scan thread visits every path on every pass, and the
\* worker is scheduled.
SpecScanFair ==
    /\ InitScan
    /\ [][NextScan]_vars
    /\ WF_vars(Tick)
    /\ \A p \in Paths : WF_vars(_check_file_change(p))
    /\ WF_vars(ScanProcessor)

(***************************************************************************)
(* check_integrity on its own: one file of any content, initialized in one *)
(* piece, then changed or deleted from outside and checked.                *)
(***************************************************************************)
TheFile == "/a"

\* _initialize_file run to completion on the file as it is.
CheckInitialize ==
    /\ fs[TheFile].exists
    /\ ~file_exists(hash_storage, TheFile)
    /\ LET bk == create_backup(TheFile, fs[TheFile], backups, now)
       IN /\ backups' = bk.backups
          /\ hash_storage' = add_file(hash_storage, TheFile,
                                      Len(fs[TheFile].data), block_size,
                                      compute_file_hashes(fs[TheFile].data),
                                      bk.backup_path, now)
    /\ edit' = [edit EXCEPT ![TheFile] = "baseline"]
    /\ last' = Other
    /\ UNCHANGED <<now, procVars, authVars, watcherVars, fs, chattr_ok,
                   integrity_engine, init_thread, handler>>

\* The file gets another content, or is deleted.
CheckModify ==
    /\ file_exists(hash_storage, TheFile)
    /\ edit[TheFile] = "baseline"
    /\ \/ \E d \in Contents :
             /\ d # fs[TheFile].data
             /\ fs' = [fs EXCEPT ![TheFile].data = d]
       \/ fs' = [fs EXCEPT ![TheFile] = Absent]
    /\ edit' = [edit EXCEPT ![TheFile] = "changed"]
    /\ last' = Other
    /\ UNCHANGED <<now, procVars, authVars, watcherVars, backups, chattr_ok,
                   hash_storage, integrity_engine, init_thread, handler>>

\* check_integrity(f, r.block_hashes, is_update_mode) for the stored r.
CheckIntegrity ==
    /\ file_exists(hash_storage, TheFile)
    /\ Len(integrity_engine.modification_history) < MaxHistory
    /\ \E is_update_mode \in BOOLEAN :
          LET r == get_file(hash_storage, TheFile)
              result == check_integrity(TheFile, fs[TheFile], r.block_hashes,
                                        is_update_mode, now)
          IN /\ integrity_engine' =
                   [integrity_engine EXCEPT !.modification_history =
                       @ \o result.event]
             /\ last' = [op |-> "check_integrity",
                         F |-> fs[TheFile],
                         reference_hashes |-> r.block_hashes,
                         is_update_mode |-> is_update_mode,
                         since |-> edit[TheFile],
                         change_type |-> result.change_type,
                         blocks_changed |->
                             Cardinality(result.changed_block_indices)]
    /\ UNCHANGED <<now, procVars, authVars, watcherVars, fsVars, chattr_ok,
                   hash_storage, init_thread, handler, edit>>

InitCheck ==
    /\ now = 0
    /\ ProcInit
    /\ auth_manager = AuthManagerInit
    /\ issued = 0
    /\ lapsed = {}
    /\ last = NoCall
    /\ WatcherIdle
    /\ \E d \in Contents :
          fs = [p \in Paths |-> IF p = TheFile THEN NewFile(d) ELSE Absent]
    /\ backups = <<>>
    /\ GuardIdle

NextCheck ==
    \/ CheckInitialize
    \/ CheckModify
    \/ CheckIntegrity

SpecCheck == InitCheck /\ [][NextCheck]_vars

(***************************************************************************)
(* The watcher callback on its own: one file of any content in the         *)
(* baseline, one file beside it that was never initialized, both written   *)
(* from outside; the handler takes the Modify events in Monitor or, with   *)
(* monitoring resumed, in Update mode.                                     *)
(***************************************************************************)
HandleBaselines == {Baseline, <<0, 1>>}

OutsideWrite(p) ==
    /\ emitted < MaxWrites
    /\ fs[p].exists /\ ~fs[p].immutable
    /\ p = TheFile => file_exists(hash_storage, p)
    /\ \E d \in Contents :
          /\ d # fs[p].data
          /\ fs' = [fs EXCEPT ![p].data = d]
    /\ emitted' = emitted + 1
    /\ watcher' = _queue_event(watcher,
                     [id |-> emitted + 1, event_type |-> "MODIFY",
                      file_path |-> p, current_time |-> now])
    /\ last' = Other
    /\ UNCHANGED <<now, procVars, authVars, wpc, wloc, handled, backups,
                   guardVars>>

InitHandle ==
    /\ now = 0
    /\ ProcInit
    /\ auth_manager = AuthManagerInit
    /\ issued = 0
    /\ lapsed = {}
    /\ last = NoCall
    /\ WatcherIdle
    /\ \E d \in HandleBaselines :
          fs = [p \in Paths |->
                  IF p = TheFile THEN NewFile(d) ELSE NewFile(Baseline)]
    /\ backups = <<>>
    /\ GuardIdle

NextHandle ==
    \/ CheckInitialize
    \/ \E p \in Paths : OutsideWrite(p)
    \/ _ipc_check_file(TheFile)
    \/ _ipc_enter_update_mode
    \/ _ipc_resume_monitoring
    \/ _on_file_event
    \/ _update_baseline

SpecHandle == InitHandle /\ [][NextHandle]_vars

(***************************************************************************)
(* compare_hashes on its own: the hash vectors of any two contents.        *)
(***************************************************************************)
Compare ==
    /\ last.op = "vectors"
    /\ last' = [op |-> "compare_hashes", C |-> last.C, R |-> last.R,
                result |-> compare_hashes(last.C, last.R),
                swapped |-> compare_hashes(last.R, last.C)]
    /\ UNCHANGED <<now, procVars, authVars, watcherVars, fsVars, guardVars>>

InitCompare ==
    /\ now = 0
    /\ ProcInit
    /\ auth_manager = AuthManagerInit
    /\ issued = 0
    /\ lapsed = {}
    /\ \E c, r \in Contents :
          last = [op |-> "vectors", C |-> compute_file_hashes(c),
                  R |-> compute_file_hashes(r)]
    /\ WatcherIdle
    /\ fs = [p \in Paths |-> Absent]
    /\ backups = <<>>
    /\ GuardIdle

NextCompare == Compare

SpecCompare == InitCompare /\ [][NextCompare]_vars

(***************************************************************************)
(* detect_ransomware_pattern on its own: any short modification history.   *)
(***************************************************************************)
MaxDetect == 3

\* The events check_integrity can have appended: half or all of two blocks
\* changed, entropy below or at the threshold.
ModificationEvents ==
    [file_path : Paths, timestamp : 0..MaxTime,
     change_percent : {[num |-> 100, den |-> 2], [num |-> 200, den |-> 2]},
     entropy : {0, entropy_threshold}]

Detect ==
    /\ last.op = "none"
    /\ last' = [op |-> "detect_ransomware_pattern",
                history |-> integrity_engine.modification_history,
                t |-> now,
                is_attack |-> detect_ransomware_pattern(
                                 integrity_engine.modification_history, now)]
    /\ UNCHANGED <<now, procVars, authVars, watcherVars, fsVars, guardVars>>

InitDetect ==
    /\ now = MaxTime
    /\ ProcInit
    /\ auth_manager = AuthManagerInit
    /\ issued = 0
    /\ lapsed = {}
    /\ last = NoCall
    /\ WatcherIdle
    /\ fs = [p \in Paths |-> Absent]
    /\ backups = <<>>
    /\ chattr_ok = TRUE
    /\ hash_storage = HashStorageInit
    /\ \E n \in 0..MaxDetect :
          \E H \in [1..n -> ModificationEvents] :
              /\ \A k \in 1..(n - 1) : H[k].timestamp <= H[k + 1].timestamp
              /\ integrity_engine = [modification_history |-> H]
    /\ init_thread = InitThreadIdle
    /\ handler = HandlerIdle
    /\ edit = [p \in Paths |-> "none"]

NextDetect == Detect

SpecDetect == InitDetect /\ [][NextDetect]_vars

(***************************************************************************)
(* The store driven through its interface, one call at a time: add_file,   *)
(* update_file, remove_file and set_trust_status on any path, with the     *)
(* size and hash vector of some content, at any time.                      *)
(***************************************************************************)
MaxAdds == 2
MaxStoreTime == 1
StoreData == {Baseline, <<1, 1>>, <<>>}
StoreBlockSizes == {block_size, 2 * block_size}

StoreCall(op, file_path, ok) ==
    [op |-> op, file_path |-> file_path, ok |-> ok, pre |-> hash_storage,
     t |-> now]

AddFile ==
    /\ hash_storage.lastrowid < MaxAdds
    /\ \E p \in Paths, d \in StoreData, bs \in StoreBlockSizes :
          /\ hash_storage' = add_file(hash_storage, p, Len(d), bs,
                                      compute_file_hashes(d),
                                      Some(<<p, now>>), now)
          /\ last' = StoreCall("add_file", p, TRUE)
    /\ UNCHANGED <<now, procVars, authVars, watcherVars, fsVars, chattr_ok,
                   integrity_engine, init_thread, handler, edit>>

UpdateFile ==
    /\ \E p \in Paths, d \in StoreData :
       \E bk \in {None, Some(<<p, now>>)} :
          /\ hash_storage' = update_file(hash_storage, p, Len(d),
                                         compute_file_hashes(d), bk, now)
          /\ last' = [op |-> "update_file", file_path |-> p,
                      ok |-> file_exists(hash_storage, p),
                      pre |-> hash_storage, t |-> now,
                      file_size |-> Len(d),
                      block_hashes |-> compute_file_hashes(d),
                      backup_path |-> bk]
    /\ UNCHANGED <<now, procVars, authVars, watcherVars, fsVars, chattr_ok,
                   integrity_engine, init_thread, handler, edit>>

RemoveFile ==
    /\ \E p \in Paths :
          /\ hash_storage' = remove_file(hash_storage, p)
          /\ last' = StoreCall("remove_file", p, file_exists(hash_storage, p))
    /\ UNCHANGED <<now, procVars, authVars, watcherVars, fsVars, chattr_ok,
                   integrity_engine, init_thread, handler, edit>>

SetTrustStatus ==
    /\ \E p \in Paths, b \in BOOLEAN :
          /\ hash_storage' = set_trust_status(hash_storage, p, b)
          /\ last' = StoreCall("set_trust_status", p,
                               file_exists(hash_storage, p))
    /\ UNCHANGED <<now, procVars, authVars, watcherVars, fsVars, chattr_ok,
                   integrity_engine, init_thread, handler, edit>>

\* The clock of the store's callers.
StoreTick == now < MaxStoreTime /\ Tick

InitStore == InitAuth

NextStore ==
    \/ StoreTick
    \/ AddFile
    \/ UpdateFile
    \/ RemoveFile
    \/ SetTrustStatus

SpecStore == InitStore /\ [][NextStore]_vars

(***************************************************************************)
(* The mode manager driven over the control channel with any timeout a     *)
(* client may send: the daemon takes params['timeout'] as it comes.  The   *)
(* range the update dialogue of the GUI offers is min_timeout..max_timeout *)
(* (60..3600 seconds there, scaled to the model's clock).                  *)
(***************************************************************************)
min_timeout == 1
max_timeout == 2
RequestTimeouts == (min_timeout - 2)..(max_timeout + 1)

EnterUpdateModeRequest ==
    \E u \in Users, timeout \in RequestTimeouts :
        LET res == enter_update_mode(auth_manager, euid, u, timeout,
                                     issued + 1, now)
        IN /\ res.token # None => issued < MaxTokens
           /\ auth_manager' = res.A
           /\ issued' = IF res.token # None THEN issued + 1 ELSE issued
           /\ last' = Call("enter_update_mode", u, timeout,
                           IF res.token # None THEN res.token[1] ELSE 0,
                           res, auth_manager)
           /\ UNCHANGED <<now, procVars, lapsed, nonAuthVars>>

InitTimeout == InitAuth

NextTimeout ==
    \/ Tick
    \/ GetCurrentMode
    \/ EnterUpdateModeRequest
    \/ ExitUpdateMode
    \/ VerifySessionToken
    \/ CleanupExpiredSessions

SpecTimeout == InitTimeout /\ [][NextTimeout]_vars

(***************************************************************************)
(* restore_blocks on its own: any target, any backup, any set of indices.  *)
(***************************************************************************)
MaxIndex == 2

TheBackup == <<"/a", 0>>

BackupOf(name) ==
    IF name \in DOMAIN backups THEN backups[name] ELSE Absent

InitRestore ==
    /\ now = 0
    /\ ProcInit
    /\ auth_manager = AuthManagerInit
    /\ issued = 0
    /\ lapsed = {}
    /\ last = NoCall
    /\ WatcherIdle
    /\ GuardIdle
    /\ \E d \in Contents, w \in SUBSET {"u", "g", "o"}, ex \in BOOLEAN :
          fs = [p \in Paths |->
                  IF p = "/a" /\ ex
                  THEN [exists |-> TRUE, data |-> d, wbits |-> w,
                        immutable |-> FALSE]
                  ELSE Absent]
    /\ \E d \in Contents :
          backups = [n \in {TheBackup} |->
                        [exists |-> TRUE, data |-> d, wbits |-> {"u"},
                         immutable |-> FALSE]]

RestoreBlocks ==
    \E I \in SUBSET (0..MaxIndex) :
        LET res == restore_blocks(fs["/a"], BackupOf(TheBackup), I)
        IN /\ fs' = [fs EXCEPT !["/a"] = res.F]
           /\ last' = [op |-> "restore_blocks", ok |-> res.ok,
                       indices |-> I, pre |-> fs["/a"]]
           /\ UNCHANGED <<now, procVars, authVars, watcherVars, backups,
                          guardVars>>

\* chattr +i on the target, as block_file(permanent) leaves it.
MakeImmutable ==
    /\ fs["/a"].exists /\ ~fs["/a"].immutable
    /\ last.op = "none"
    /\ fs' = [fs EXCEPT !["/a"].immutable = TRUE]
    /\ UNCHANGED <<now, procVars, authVars, watcherVars, backups, last,
                   guardVars>>

NextRestore ==
    \/ RestoreBlocks
    \/ MakeImmutable

SpecRestore == InitRestore /\ [][NextRestore]_vars

(***************************************************************************)
(* The restores with an I/O error: a write of shutil.copy2 or of the block *)
(* loop raises OSError after part of the data is written; the except       *)
(* clause returns the failure.                                             *)
(***************************************************************************)
\* restore_from_backup when copy2 raises after n bytes: copyfile has
\* truncated the target, copystat and chmod(0o644) are not reached.
restore_from_backup_io_error(F, B, n) ==
    LET L == _lock_file(F)
    IN IF L.exists /\ L.immutable
       THEN [ok |-> FALSE, F |-> L]
       ELSE [ok |-> FALSE,
             F |-> [exists |-> TRUE, data |-> SubSeq(B.data, 1, n),
                    wbits |-> IF L.exists THEN L.wbits ELSE {"u"},
                    immutable |-> FALSE]]

\* restore_blocks when target_file.write raises after the blocks J.
restore_blocks_io_error(F, B, J) ==
    LET L == _lock_file(F)
    IN IF L.immutable
       THEN [ok |-> FALSE, F |-> L]
       ELSE [ok |-> FALSE,
             F |-> [L EXCEPT !.data = WriteBlocks(L.data, B.data, J)]]

RestoreFromBackup ==
    LET res == restore_from_backup(fs["/a"], BackupOf(TheBackup))
    IN /\ fs' = [fs EXCEPT !["/a"] = res.F]
       /\ last' = [op |-> "restore_from_backup", ok |-> res.ok,
                   io_error |-> FALSE, pre |-> fs["/a"]]
       /\ UNCHANGED <<now, procVars, authVars, watcherVars, backups,
                      guardVars>>

RestoreFromBackupIOError ==
    /\ BackupOf(TheBackup).exists
    /\ \E n \in 0..(Len(BackupOf(TheBackup).data) - 1) :
          LET res == restore_from_backup_io_error(fs["/a"],
                                                  BackupOf(TheBackup), n)
          IN /\ fs' = [fs EXCEPT !["/a"] = res.F]
             /\ last' = [op |-> "restore_from_backup", ok |-> res.ok,
                         io_error |-> TRUE, pre |-> fs["/a"]]
    /\ UNCHANGED <<now, procVars, authVars, watcherVars, backups, guardVars>>

RestoreBlocksReturn ==
    \E I \in SUBSET (0..MaxIndex) :
        LET res == restore_blocks(fs["/a"], BackupOf(TheBackup), I)
        IN /\ fs' = [fs EXCEPT !["/a"] = res.F]
           /\ last' = [op |-> "restore_blocks", ok |-> res.ok,
                       io_error |-> FALSE, pre |-> fs["/a"]]
           /\ UNCHANGED <<now, procVars, authVars, watcherVars, backups,
                          guardVars>>

\* The write of block i raises: the blocks before i are written, i is a
\* block the backup has.
RestoreBlocksIOError ==
    /\ BackupOf(TheBackup).exists
    /\ fs["/a"].exists
    /\ \E I \in SUBSET (0..MaxIndex) : \E i \in I :
          /\ ReadAt(BackupOf(TheBackup).data, i * block_size, block_size)
                # <<>>
          /\ LET res == restore_blocks_io_error(fs["/a"],
                                                BackupOf(TheBackup),
                                                {j \in I : j < i})
             IN /\ fs' = [fs EXCEPT !["/a"] = res.F]
                /\ last' = [op |-> "restore_blocks", ok |-> res.ok,
                            io_error |-> TRUE, pre |-> fs["/a"]]
    /\ UNCHANGED <<now, procVars, authVars, watcherVars, backups, guardVars>>

\* An outside process gives the file a new mode between two restores.
OutsideChmod ==
    /\ fs["/a"].exists
    /\ last.op # "none"
    /\ \E w \in SUBSET {"u", "g", "o"} :
          /\ w # fs["/a"].wbits
          /\ fs' = [fs EXCEPT !["/a"].wbits = w]
    /\ last' = Other
    /\ UNCHANGED <<now, procVars, authVars, watcherVars, backups, guardVars>>

NextRestoreIO ==
    \/ RestoreFromBackup
    \/ RestoreFromBackupIOError
    \/ RestoreBlocksReturn
    \/ RestoreBlocksIOError
    \/ OutsideChmod

SpecRestoreIO == InitRestore /\ [][NextRestoreIO]_vars

(***************************************************************************)
(* Claims about the mode manager (specification SpecAuth).                 *)
(***************************************************************************)
ModeCalls ==
    {"enter_init_mode", "exit_init_mode", "enter_update_mode",
     "exit_update_mode", "enter_emergency_mode", "exit_emergency_mode"}

AdminCalls ==
    {"enter_init_mode", "exit_init_mode", "enter_update_mode",
     "exit_update_mode", "exit_emergency_mode"}

CallInEmergency ==
    /\ last.op \in ModeCalls
    /\ last.pre.current_mode = "EMERGENCY"
    /\ ~(last.op = "exit_emergency_mode" /\ _verify_admin(euid, last.user))

\* C1 as stated: in Emergency every mode-entry or mode-exit call other than
\* exit_emergency_mode by a verified admin, a repeated enter_emergency_mode
\* included, returns failure and the mode stays Emergency.
C1_EmergencyTrapAsStated ==
    CallInEmergency =>
        /\ ~last.ok
        /\ auth_manager.current_mode = "EMERGENCY"

\* C1 amended: in Emergency, enter_init_mode, exit_init_mode,
\* enter_update_mode, exit_update_mode and exit_emergency_mode by a
\* non-admin return failure and change nothing; a repeated
\* enter_emergency_mode returns success; after each of them, and after every
\* other call short of a successful exit_emergency_mode, the mode is still
\* Emergency.
C1_EmergencyTrap ==
    /\ (CallInEmergency /\ last.op # "enter_emergency_mode") =>
            (~last.ok /\ auth_manager = last.pre)
    /\ (CallInEmergency /\ last.op = "enter_emergency_mode") => last.ok
    /\ (last.pre.current_mode = "EMERGENCY" /\ last.op # "none"
        /\ ~(last.op = "exit_emergency_mode" /\ last.ok)) =>
            auth_manager.current_mode = "EMERGENCY"

C1_Witness ==
    /\ last.op = "enter_update_mode"
    /\ last.pre.current_mode = "EMERGENCY"
    /\ _verify_admin(euid, last.user)
    /\ ~last.ok
    /\ auth_manager.current_mode = "EMERGENCY"

ReadInUpdate ==
    /\ last.op = "get_current_mode"
    /\ last.pre.current_mode = "UPDATE"

Elapsed == last.t - last.pre.mode_start_time[1]

\* C2 as stated: a get_current_mode() call made in Update when the time
\* since entry (or since the last extension) is >= the timeout returns
\* Monitor.
C2_DeadlineAsStated ==
    (ReadInUpdate /\ Elapsed >= last.pre.mode_timeout[1]) =>
        last.ret = "MONITOR"

\* C2 amended: a get_current_mode() call made in Update when the time since
\* entry (or since the last extension) is strictly greater than the timeout
\* given at that entry or extension returns Monitor and leaves the manager
\* in Monitor, with no explicit exit call.
C2_Deadline ==
    (ReadInUpdate /\ Elapsed > last.pre.mode_timeout[1]) =>
        /\ last.ret = "MONITOR"
        /\ auth_manager.current_mode = "MONITOR"

C2_Witness ==
    /\ ReadInUpdate
    /\ Elapsed > last.pre.mode_timeout[1]
    /\ last.ret = "MONITOR"

\* C3: an admin-conditioned mode transition called by a user who does not
\* pass admin verification returns failure and leaves the mode, the deadline
\* and the session table unchanged.
C3_AdminOnly ==
    (last.op \in AdminCalls /\ ~_verify_admin(euid, last.user)) =>
        /\ ~last.ok
        /\ auth_manager = last.pre

VerifyAfterLapse ==
    /\ last.op = "verify_session_token"
    /\ last.token \in lapsed

\* C10 as stated: a token issued at Update entry, verified after the deadline
\* lapsed and get_current_mode() returned Monitor, fails with Expired.
C10_ExpiredAsStated ==
    VerifyAfterLapse => last.ret = "EXPIRED"

\* C10 amended: a token issued at Update entry, verified after the deadline
\* lapsed and get_current_mode() returned Monitor, fails with Unauthorized:
\* the downgrade emptied the session table.
C10_UnauthorizedAfterLapse ==
    VerifyAfterLapse => (last.ret = "UNAUTHORIZED" /\ ~last.ok)

C10_Witness ==
    /\ VerifyAfterLapse
    /\ last.ret = "UNAUTHORIZED"
    /\ auth_manager.current_mode = "MONITOR"

(***************************************************************************)
(* Claims about the watcher (specification SpecWatcher).                   *)
(***************************************************************************)
\* C5: two events on the same path emitted within the dedup window lead to
\* one handler invocation, not two, whichever source threads emit them and
\* however the threads interleave.
C5_DedupOneInvocation ==
    \A e1, e2 \in handled :
        (e1.id # e2.id /\ e1.file_path = e2.file_path) =>
            \/ e1.current_time - e2.current_time >= dedup_window
            \/ e2.current_time - e1.current_time >= dedup_window

(***************************************************************************)
(* Claims about the recovery engine (specification SpecRestore).           *)
(***************************************************************************)
RestoredOk == last.op = "restore_blocks" /\ last.ok

\* C8: after a successful restore_blocks(f, b, I) every block i in I of f
\* holds the bytes of the same block of b, and f is as long as b, whether the
\* target was shorter than, as long as or longer than the backup.
C8_RestoreBlocksBytes ==
    RestoredOk =>
        LET f == fs["/a"].data
            b == BackupOf(TheBackup).data
        IN /\ Len(f) = Len(b)
           /\ \A i \in last.indices :
                 ReadAt(f, i * block_size, block_size) =
                 ReadAt(b, i * block_size, block_size)

\* A target shorter than the backup, restored in a block the target does
\* not reach.
C8_Witness ==
    /\ RestoredOk
    /\ last.pre.exists
    /\ Len(last.pre.data) < block_size
    /\ Len(BackupOf(TheBackup).data) > block_size
    /\ last.indices = {1}


(***************************************************************************)
(* Claims about the running guard (specification Spec).                    *)
(***************************************************************************)
BaselineMatches(p) ==
    /\ fs[p].exists
    /\ file_exists(hash_storage, p)
    /\ get_file(hash_storage, p).block_hashes = compute_file_hashes(fs[p].data)

\* C4: a protected file changed from outside while the mode is Update, and
\* not changed again, has its Modify event handled as an allowed change:
\* once the event processor has taken that event in Update mode and the
\* callback has finished, the baseline record holds the hashes of the new
\* content (so a later verification finds no change).
C4_UpdateEditAbsorbed ==
    \A p \in Paths :
        (edit[p] = "taken" /\ handler.pc = "idle") => BaselineMatches(p)

RansomwareHandled ==
    last.op = "on_file_event" /\ last.outcome = "ransomware"

\* C6: right after a violation whose handling found the ransomware pattern,
\* the mode is Emergency, every path of the store that still exists has no
\* write bit left, and the file that triggered it is as it was found.
C6_EmergencyBlocksAll ==
    RansomwareHandled =>
        /\ auth_manager.current_mode = "EMERGENCY"
        /\ \A p \in get_all_files(hash_storage) :
              fs[p].exists => fs[p].wbits = {}
        /\ fs[last.file_path].exists = last.pre.exists
        /\ fs[last.file_path].data = last.pre.data

\* C6 witness: the pattern was found, and two stored files were blocked,
\* the triggering one still holding the content it was found with.
C6_Witness ==
    /\ RansomwareHandled
    /\ \A p \in Paths :
          /\ file_exists(hash_storage, p)
          /\ fs[p].exists /\ fs[p].wbits = {}
    /\ ~BaselineMatches(last.file_path)

(***************************************************************************)
(* Claims about the store and the backups (specification SpecBaseline).    *)
(***************************************************************************)
\* C7: for every record of the store with a backup, a successful
\* restore_from_backup from that backup leaves the file such that
\* check_integrity against the record's hashes returns NO_CHANGE.
C7_BackupHoldsHashedContent ==
    \A r \in hash_storage.files :
        LET res == restore_from_backup(fs[r.file_path],
                                       BackupAt(backups, r.backup_path))
        IN (r.backup_path # None /\ res.ok) =>
              check_integrity(r.file_path, res.F,
                              StoredHashes(hash_storage, r.id), FALSE,
                              now).change_type = "NO_CHANGE"

\* C9: every record of the store has as many block hashes as blocks_count
\* says, and blocks_count is ceil(file_size / block_size).
C9_BlocksCountOfSize ==
    \A r \in hash_storage.files :
        /\ Len(StoredHashes(hash_storage, r.id)) = r.blocks_count
        /\ r.blocks_count = CeilDiv(r.file_size, r.block_size)


(***************************************************************************)
(* Claims about concurrent callers (specification SpecAuthRace).           *)
(***************************************************************************)
\* C11: calls of the mode manager made from several threads behave as some
\* serial order of them; in particular, when enter_emergency_mode is the
\* last call that returned, the mode is Emergency: an enter_init_mode or
\* enter_update_mode still in progress on another thread cannot have
\* overwritten it.
C11_EmergencyNotOverwritten ==
    last.op = "enter_emergency_mode" =>
        auth_manager.current_mode = "EMERGENCY"


(***************************************************************************)
(* Claims about the shared store (specification SpecStoreRace).            *)
(***************************************************************************)
\* C12: a get_file that runs while another thread updates the same path
\* returns a whole record, the one before the update or the one after it,
\* never one with an empty or partial hash vector or with the metadata of
\* one version and the hashes of another.
C12_ReaderSeesWholeRecord ==
    last.op = "get_file" => last.record \in sthread.versions


(***************************************************************************)
(* Claims about concurrent restores (specification SpecRestoreRace).       *)
(***************************************************************************)
\* C13: two restores of the same target never overlap: while the handler
\* thread is inside a restore of a file, a restore_file command for the
\* same file has not entered its restore, and the other way round.
C13_RestoresNeverOverlap ==
    \A t1, t2 \in RestoreThreads :
        (/\ t1 # t2
         /\ rthread[t1].pc # "idle"
         /\ rthread[t2].pc # "idle")
        => rthread[t1].file_path # rthread[t2].file_path


(***************************************************************************)
(* Claims about the mode at the moment of a store write (specifications    *)
(* SpecBaseline and Spec).                                                 *)
(***************************************************************************)
\* C14: at the moment add_file creates a record the mode is Init or Update,
\* and at the moment update_file updates one the mode is Update, whatever
\* the mode did while the initialization thread or the handler was running.
C14_WritesOnlyInTheirModes ==
    /\ last.op = "add_file" => last.mode \in {"INIT", "UPDATE"}
    /\ last.op = "update_file" => last.mode = "UPDATE"


(***************************************************************************)
(* Claims about control commands (specification SpecCommands).             *)
(***************************************************************************)
\* C15: a restore_file command that the validation table does not permit
\* for the caller in the current mode (any caller in Monitor, Init or
\* Update, an unverified one in Emergency) is rejected and leaves the file
\* as it was.
C15_RestoreOnlyWhenPermitted ==
    (last.op = "restore_file" /\ ~last.permitted) =>
        /\ ~last.ok
        /\ fs[last.file_path] = last.pre


(***************************************************************************)
(* Claims about the watcher's threads (specification SpecLifecycle).       *)
(***************************************************************************)
Increasing(q) == \A i, j \in 1..Len(q) : i < j => q[i] < q[j]

\* C16: after any sequence of start and stop, a stop whose join timed out
\* included, at most one event-processor thread is in its loop, so at most
\* one callback runs at a time, at most one periodic-scan thread is
\* scanning, and the callback is entered in the order of the queue.
C16_OneWorkerOfEachKind ==
    /\ Cardinality({g \in Gens :
                      wthreads.processor[g] \in {"get", "callback"}}) <= 1
    /\ Cardinality({g \in Gens : wthreads.fallback[g] = "scan"}) <= 1
    /\ Increasing(wthreads.calls)

\* C18: a watcher thread in which the processing of one event or one file
\* raised an error is still running afterwards.
C18_ErrorKeepsThreadAlive ==
    last.op = "thread_error" => last.g \in Alive(last.kind)


(***************************************************************************)
(* Claims about the periodic scan (specification SpecScanFair).            *)
(***************************************************************************)
\* C17: with the watcher running and not paused, a content change the
\* handler has not seen, its kernel event lost or dropped as a duplicate
\* included, is eventually followed by a handler invocation for the path
\* that sees the file's latest state.
C17_ChangeEventuallySeen ==
    \A p \in Paths :
        (scan.seen[p] # scan.mtime[p]) ~> (scan.seen[p] = scan.mtime[p])


(***************************************************************************)
(* Claims about check_integrity (specification SpecCheck).                 *)
(***************************************************************************)
\* C19: a file that was initialized and not modified since checks as
\* NO_CHANGE against its record's hashes, whatever its size: empty, a
\* multiple of block_size or not.
C19_BaselineChecksClean ==
    (last.op = "check_integrity" /\ last.since = "baseline") =>
        last.change_type = "NO_CHANGE"

\* An unmodified file whose size is not a multiple of block_size and whose
\* blocks differ from each other has been checked.
C19_Witness ==
    /\ last.op = "check_integrity"
    /\ last.since = "baseline"
    /\ Len(last.F.data) % block_size # 0
    /\ Len(last.reference_hashes) = 2
    /\ last.reference_hashes[1] # last.reference_hashes[2]

\* An unmodified empty file has been checked.
C19_WitnessEmpty ==
    /\ last.op = "check_integrity"
    /\ last.since = "baseline"
    /\ last.F.data = <<>>

\* What the claim's thresholds say about the checked file.
PercentMet ==
    MeetsPercent(compare_hashes(compute_file_hashes(last.F.data),
                                last.reference_hashes).change_percent)

EntropyMet == calculate_entropy(last.F) >= entropy_threshold

Classified ==
    /\ last.change_type = "NO_CHANGE" <=> last.blocks_changed = 0
    /\ last.blocks_changed # 0 =>
          (last.change_type = "ALLOWED_CHANGE" <=> last.is_update_mode)
    /\ (last.blocks_changed # 0 /\ ~last.is_update_mode) =>
          /\ last.change_type = "CRITICAL_CHANGE"
                <=> (PercentMet /\ EntropyMet)
          /\ last.change_type = "SUSPICIOUS_CHANGE"
                <=> (PercentMet # EntropyMet)
          /\ last.change_type = "UNAUTHORIZED_CHANGE"
                <=> (~PercentMet /\ ~EntropyMet)

\* C20 as stated: every check, of a missing file too, is NO_CHANGE exactly
\* when zero blocks changed, else ALLOWED_CHANGE exactly when the update
\* flag is set, else CRITICAL, SUSPICIOUS or UNAUTHORIZED by the thresholds.
C20_ClassifiedAsStated ==
    last.op = "check_integrity" => Classified

\* C20 amended: the check of a file that exists is NO_CHANGE exactly when
\* zero blocks changed, else ALLOWED_CHANGE exactly when the update flag is
\* set, else CRITICAL when both thresholds are met, SUSPICIOUS when exactly
\* one is, UNAUTHORIZED when neither is; the check of a missing file is
\* CRITICAL_CHANGE with zero blocks changed, whatever the flag.
C20_Classified ==
    last.op = "check_integrity" =>
        IF last.F.exists
        THEN Classified
        ELSE /\ last.change_type = "CRITICAL_CHANGE"
             /\ last.blocks_changed = 0

\* A changed file outside Update mode that meets exactly one threshold has
\* been checked.
C20_Witness ==
    /\ last.op = "check_integrity"
    /\ last.F.exists
    /\ last.blocks_changed # 0
    /\ ~last.is_update_mode
    /\ PercentMet # EntropyMet


(***************************************************************************)
(* Claims about compare_hashes (specification SpecCompare).                *)
(***************************************************************************)
\* The indices the claim names for the vectors C and R.
Expected(C, R) ==
    {i \in 0..(Min(Len(C), Len(R)) - 1) : C[i + 1] # R[i + 1]}
    \cup Min(Len(C), Len(R))..(Max(Len(C), Len(R)) - 1)

\* C21: compare_hashes(C, R) returns exactly the indices below
\* min(|C|,|R|) where the vectors differ and every index from min to max,
\* in ascending order, with change_percent = 100 * changed / max(|C|,|R|),
\* 0 when both are empty; compare_hashes(R, C) returns the same.
C21_CompareHashes ==
    last.op = "compare_hashes" =>
        LET L == last.result.changed_list
            cp == last.result.change_percent
            mx == Max(Len(last.C), Len(last.R))
        IN /\ {L[k] : k \in 1..Len(L)} = Expected(last.C, last.R)
           /\ \A j, k \in 1..Len(L) : j < k => L[j] < L[k]
           /\ mx > 0 =>
                 cp.num * mx = 100 * Cardinality(Expected(last.C, last.R))
                               * cp.den
           /\ mx = 0 => cp.num = 0
           /\ last.swapped = last.result

\* Vectors of different lengths that also differ in a common block have
\* been compared.
C21_Witness ==
    /\ last.op = "compare_hashes"
    /\ Len(last.C) # Len(last.R)
    /\ \E i \in 1..Min(Len(last.C), Len(last.R)) : last.C[i] # last.R[i]


(***************************************************************************)
(* Claims about detect_ransomware_pattern (specification SpecDetect).      *)
(***************************************************************************)
\* The events of the checked history that lie in the window.
Recent == {k \in 1..Len(last.history) :
              last.history[k].timestamp >= last.t - time_window}

RECURSIVE DenProduct(_)
DenProduct(H) ==
    IF H = <<>> THEN 1 ELSE Head(H).change_percent.den * DenProduct(Tail(H))

\* The mean change_percent of the recent events is at least the threshold.
MeanMet ==
    LET P == DenProduct(last.history)
        scaled == [k \in Recent |->
                      last.history[k].change_percent.num
                      * (P \div last.history[k].change_percent.den)]
    IN SumOver(Recent, scaled)
          >= block_change_percent * Cardinality(Recent) * P

CriticalEvents ==
    {k \in Recent :
        /\ MeetsPercent(last.history[k].change_percent)
        /\ last.history[k].entropy >= entropy_threshold}

\* C22: detect_ransomware_pattern is positive exactly when the events in
\* the window are at least files_count_threshold, their mean change_percent
\* is at least the block-change threshold, and those meeting both
\* thresholds are at least 0.7 times their count.
C22_DetectorPositiveIff ==
    last.op = "detect_ransomware_pattern" =>
        (last.is_attack <=>
            /\ Cardinality(Recent) >= files_count_threshold
            /\ MeanMet
            /\ 10 * Cardinality(CriticalEvents) >= 7 * Cardinality(Recent))

\* A positive detection over a history that also holds an event outside
\* the window and an event below the thresholds.
C22_Witness ==
    /\ last.op = "detect_ransomware_pattern"
    /\ last.is_attack
    /\ Cardinality(Recent) < Len(last.history)

\* A negative detection where the count and the mean are met and only the
\* share of critical events is not.
C22_WitnessShare ==
    /\ last.op = "detect_ransomware_pattern"
    /\ ~last.is_attack
    /\ Cardinality(Recent) >= files_count_threshold
    /\ MeanMet

\* C23: when the handler answers a violation with the ransomware response,
\* the events in the detector's window concern at least
\* files_count_threshold distinct file paths: one file modified again and
\* again never brings the system into Emergency.
C23_PositiveNeedsManyFiles ==
    (last.op = "on_file_event" /\ last.outcome = "ransomware") =>
        LET H == integrity_engine.modification_history
        IN Cardinality({H[k].file_path :
                          k \in {j \in 1..Len(H) :
                                   H[j].timestamp >= now - time_window}})
              >= files_count_threshold

(***************************************************************************)
(* C24: there is no direct transition between Init and Update.             *)
(* enter_update_mode called in Init, and enter_init_mode called in Update, *)
(* return failure and leave the mode, the deadline and the sessions (the   *)
(* whole manager) as they were.                                            *)
(***************************************************************************)
C24_NoInitUpdateShortcut ==
    /\ (last.op = "enter_update_mode" /\ last.pre.current_mode = "INIT") =>
           (~last.ok /\ auth_manager = last.pre)
    /\ (last.op = "enter_init_mode" /\ last.pre.current_mode = "UPDATE") =>
           (~last.ok /\ auth_manager = last.pre)

\* enter_init_mode was refused in Update while a session was open.
C24_Witness ==
    /\ last.op = "enter_init_mode"
    /\ last.pre.current_mode = "UPDATE"
    /\ last.pre.active_sessions # {}
    /\ auth_manager.current_mode = "UPDATE"

\* enter_update_mode was refused in Init for an administrator.
C24_WitnessUpdateInInit ==
    /\ last.op = "enter_update_mode"
    /\ last.pre.current_mode = "INIT"
    /\ last.user = "root"
    /\ auth_manager.current_mode = "INIT"

(***************************************************************************)
(* C25: enter_emergency_mode succeeds from every mode; after it the mode   *)
(* is Emergency, the recorded reason is the reason that was supplied, and  *)
(* verify_session_token succeeds for no token.                             *)
(***************************************************************************)
C25_EmergencyUnconditional ==
    last.op = "enter_emergency_mode" =>
        /\ last.ok
        /\ auth_manager.current_mode = "EMERGENCY"
        /\ auth_manager.emergency_reason = last.reason
        /\ \A tok \in Tokens :
               ~verify_session_token(auth_manager, tok, now).ok

\* Emergency was entered from Update while an unexpired session was open.
C25_Witness ==
    /\ last.op = "enter_emergency_mode"
    /\ last.pre.current_mode = "UPDATE"
    /\ \E s \in last.pre.active_sessions : s.expires >= now
    /\ now = last.t

\* Emergency was entered from each of the other modes.
C25_WitnessFromInit ==
    last.op = "enter_emergency_mode" /\ last.pre.current_mode = "INIT"

C25_WitnessFromEmergency ==
    /\ last.op = "enter_emergency_mode"
    /\ last.pre.current_mode = "EMERGENCY"
    /\ last.pre.emergency_reason # last.reason

(***************************************************************************)
(* C26: enter_update_mode accepts only timeouts of min_timeout to          *)
(* max_timeout seconds; with any other timeout (zero, negative, above the  *)
(* maximum) it returns failure and neither enters nor extends Update.      *)
(***************************************************************************)
C26_TimeoutInRange ==
    (/\ last.op = "enter_update_mode"
     /\ last.timeout \notin min_timeout..max_timeout) =>
        (~last.ok /\ auth_manager = last.pre)

(***************************************************************************)
(* C27: extending Update keeps the session token of the period valid.      *)
(* While the mode is Update and its (possibly extended) deadline has not   *)
(* been reached, verify_session_token of the token that was issued when    *)
(* Update was entered returns Success.                                     *)
(***************************************************************************)
C27_ExtendedTokenStaysValid ==
    (/\ last.op = "verify_session_token"
     /\ last.pre.current_mode = "UPDATE"
     /\ last.token = issued
     /\ last.t < last.pre.mode_start_time[1] + last.pre.mode_timeout[1]) =>
        last.ret = "SUCCESS"

(***************************************************************************)
(* C28: only Update ends by itself.  get_current_mode changes the manager  *)
(* only by taking Update to Monitor once the deadline has passed; in       *)
(* Monitor, Init and Emergency no timeout is set, and get_current_mode     *)
(* returns that same mode and changes nothing, whatever the time.          *)
(***************************************************************************)
C28_OnlyUpdateExpires ==
    /\ auth_manager.current_mode \in {"MONITOR", "INIT", "EMERGENCY"} =>
           auth_manager.mode_timeout = None
    /\ last.op = "get_current_mode" =>
           /\ last.ret = auth_manager.current_mode
           /\ last.pre.current_mode # "UPDATE" =>
                  (auth_manager = last.pre /\ last.ret = last.pre.current_mode)
           /\ auth_manager # last.pre =>
                  /\ last.pre.current_mode = "UPDATE"
                  /\ last.t > last.pre.mode_start_time[1]
                                + last.pre.mode_timeout[1]
                  /\ auth_manager.current_mode = "MONITOR"

\* get_current_mode was read in Emergency long after it was entered.
C28_Witness ==
    /\ last.op = "get_current_mode"
    /\ last.pre.current_mode = "EMERGENCY"
    /\ last.t - last.pre.mode_start_time[1] >= MaxTime - 1
    /\ last.ret = "EMERGENCY"

\* The same in Init, and the one change get_current_mode makes.
C28_WitnessInit ==
    /\ last.op = "get_current_mode"
    /\ last.pre.current_mode = "INIT"
    /\ last.t - last.pre.mode_start_time[1] >= MaxTime - 1

C28_WitnessDowngrade ==
    /\ last.op = "get_current_mode"
    /\ last.pre.current_mode = "UPDATE"
    /\ last.ret = "MONITOR"

C28_WitnessUpdateKept ==
    /\ last.op = "get_current_mode"
    /\ last.pre.current_mode = "UPDATE"
    /\ last.t = last.pre.mode_start_time[1] + last.pre.mode_timeout[1]
    /\ last.ret = "UPDATE"

(***************************************************************************)
(* C29: update_file of a path with no record reports failure and leaves    *)
(* the store as it was.  On a path with a record it replaces the hash      *)
(* vector, file_size, blocks_count and backup_path, sets updated_at to the *)
(* time of the call, and leaves created_at, block_size, is_trusted and the *)
(* record of every other path as they were.                                *)
(***************************************************************************)
C29_UpdateFrame ==
    last.op = "update_file" =>
        IF ~file_exists(last.pre, last.file_path)
        THEN ~last.ok /\ hash_storage = last.pre
        ELSE LET old == get_file(last.pre, last.file_path)
                 new == get_file(hash_storage, last.file_path)
             IN /\ last.ok
                /\ file_exists(hash_storage, last.file_path)
                /\ new.block_hashes = last.block_hashes
                /\ new.file_size = last.file_size
                /\ new.blocks_count = Len(last.block_hashes)
                /\ new.backup_path = last.backup_path
                /\ new.updated_at = last.t
                /\ new.created_at = old.created_at
                /\ new.block_size = old.block_size
                /\ new.is_trusted = old.is_trusted
                /\ \A q \in Paths \ {last.file_path} :
                      /\ file_exists(hash_storage, q) = file_exists(last.pre, q)
                      /\ file_exists(last.pre, q) =>
                            get_file(hash_storage, q) = get_file(last.pre, q)

\* An untrusted record with its own block size, made earlier, was updated
\* with a different vector while the other path had a record too.
C29_Witness ==
    /\ last.op = "update_file"
    /\ last.ok
    /\ \A q \in Paths : file_exists(last.pre, q)
    /\ LET old == get_file(last.pre, last.file_path)
       IN /\ ~old.is_trusted
          /\ old.block_size # block_size
          /\ old.created_at < last.t
          /\ old.updated_at < last.t
          /\ old.block_hashes # last.block_hashes
          /\ Len(old.block_hashes) # Len(last.block_hashes)
          /\ old.backup_path # last.backup_path

\* update_file was called for a path with no record while another had one.
C29_WitnessNotFound ==
    /\ last.op = "update_file"
    /\ ~last.ok
    /\ last.pre.files # {}

(***************************************************************************)
(* C30: block-hash rows never outlive their file record.  Every row of     *)
(* block_hashes belongs to a row of files (so after remove_file, and after *)
(* add_file on a path that had a record, no hash row of the old record is  *)
(* left), and each file record has exactly blocks_count hash rows, so the  *)
(* number of hash rows is the sum of blocks_count over the records.        *)
(***************************************************************************)
C30_NoOrphanHashRows ==
    /\ \A h \in hash_storage.block_hashes :
          \E r \in hash_storage.files : r.id = h.file_id
    /\ \A r \in hash_storage.files :
          Cardinality({h \in hash_storage.block_hashes : h.file_id = r.id})
             = r.blocks_count

(***************************************************************************)
(* C31: a violation that is detected and not resolved leaves the record    *)
(* untrusted.  When the handler has answered an event with a restore and   *)
(* the file still does not match its record (the restore failed or there   *)
(* was no backup), the record's is_trusted is false.                       *)
(***************************************************************************)
C31_UnresolvedIsUntrusted ==
    (/\ last.op = "on_file_event"
     /\ last.outcome \in {"restore", "deletion_restore"}
     /\ file_exists(hash_storage, last.file_path)
     /\ \/ ~fs[last.file_path].exists
        \/ compute_file_hashes(fs[last.file_path].data)
              # get_file(hash_storage, last.file_path).block_hashes) =>
        ~get_file(hash_storage, last.file_path).is_trusted

(***************************************************************************)
(* C32: the deletion of a protected file is handled alike whether the      *)
(* handler gets a Delete event or a Modify event and finds the file        *)
(* missing: in Update mode the deletion is accepted and nothing is         *)
(* restored, in every other mode the file is restored in full from the     *)
(* backup of its record.                                                   *)
(***************************************************************************)
C32_DeletionHandledAlike ==
    (/\ last.op = "on_file_event"
     /\ ~last.pre.exists
     /\ last.outcome \notin {"dropped", "ignored"}) =>
        IF last.mode = "UPDATE"
        THEN fs[last.file_path] = last.pre
        ELSE /\ fs[last.file_path].exists
             /\ fs[last.file_path].data =
                   BackupAt(backups,
                            get_file(hash_storage, last.file_path).backup_path
                           ).data

(***************************************************************************)
(* C33: events that a source emits while the watcher is paused are         *)
(* ignored: none of them ever reaches the handler, during the pause or     *)
(* after resume.                                                           *)
(***************************************************************************)
C33_PausedEventsIgnored ==
    \A e \in handled : ~e.paused

(***************************************************************************)
(* C34: for a Modify event the handler does exactly what the               *)
(* classification of the file asks for.  A path that is not in the store:  *)
(* nothing changes.  NoChange: nothing is written.  AllowedChange: the     *)
(* baseline update is started, and when it runs on the file it stores the  *)
(* hashes of the check and a new backup.  A violation with the ransomware  *)
(* detector positive: Emergency, every stored file blocked, the watcher    *)
(* paused, nothing restored.  Otherwise Unauthorized or Suspicious:        *)
(* restore_blocks on the changed indices; Critical: restore_from_backup.   *)
(***************************************************************************)
HandledModify ==
    /\ handler.pc = "idle"
    /\ watcher.event_queue # <<>>
    /\ ~watcher.is_paused
    /\ Head(watcher.event_queue).event_type = "MODIFY"
    /\ watcher'.event_queue = Tail(watcher.event_queue)

ModifyOutcome ==
    LET p == Head(watcher.event_queue).file_path
    IN IF ~file_exists(hash_storage, p)
       THEN /\ UNCHANGED <<fs, backups, hash_storage, auth_manager,
                           integrity_engine, handler>>
            /\ ~watcher'.is_paused
       ELSE LET rec == get_file(hash_storage, p)
                B == BackupAt(backups, rec.backup_path)
                mode == get_current_mode(auth_manager, now).ret
                result == check_integrity(p, fs[p], rec.block_hashes,
                                          mode = "UPDATE", now)
                positive == detect_ransomware_pattern(
                               integrity_engine'.modification_history, now)
                ct == result.change_type
            IN /\ UNCHANGED <<backups, hash_storage>>
               /\ IF ct = "NO_CHANGE"
                  THEN /\ fs' = fs
                       /\ handler' = HandlerIdle
                       /\ auth_manager'.current_mode = mode
                  ELSE IF ct = "ALLOWED_CHANGE"
                  THEN /\ fs' = fs
                       /\ handler' = [pc |-> "update", file_path |-> p,
                                      current_hashes |->
                                          compute_file_hashes(fs[p].data)]
                       /\ auth_manager'.current_mode = mode
                  ELSE IF positive
                  THEN /\ auth_manager'.current_mode = "EMERGENCY"
                       /\ watcher'.is_paused
                       /\ handler' = HandlerIdle
                       /\ fs' = emergency_block_all(
                                   fs, get_all_files(hash_storage), chattr_ok)
                  ELSE /\ auth_manager'.current_mode = mode
                       /\ ~watcher'.is_paused
                       /\ handler' = HandlerIdle
                       /\ fs' = [fs EXCEPT ![p] =
                                   IF ct = "CRITICAL_CHANGE"
                                   THEN restore_from_backup(fs[p], B).F
                                   ELSE restore_blocks(
                                          fs[p], B,
                                          result.changed_block_indices).F]

BaselineUpdated ==
    (handler.pc = "update" /\ handler'.pc = "idle"
       /\ fs[handler.file_path].exists) =>
        LET p == handler.file_path
            rec == get_file(hash_storage', p)
        IN /\ rec.block_hashes = handler.current_hashes
           /\ rec.backup_path # None
           /\ BackupAt(backups', rec.backup_path).data = fs[p].data
           /\ fs' = fs

C34_OutcomeByClassification ==
    [][(HandledModify => ModifyOutcome) /\ BaselineUpdated]_vars

\* One event was answered with a block restore that brought the backup back.
C34_Witness ==
    /\ last.op = "on_file_event"
    /\ last.event_type = "MODIFY"
    /\ last.change_type = "UNAUTHORIZED_CHANGE"
    /\ last.outcome = "restore"
    /\ fs[last.file_path].data # last.pre.data

\* The other outcomes: the lockdown, the full restore, the baseline update
\* and the event that is not under protection.
C34_WitnessEmergency ==
    /\ last.op = "on_file_event"
    /\ last.outcome = "ransomware"
    /\ fs[last.file_path].data = last.pre.data

C34_WitnessCritical ==
    /\ last.op = "on_file_event"
    /\ last.change_type = "CRITICAL_CHANGE"
    /\ last.outcome = "restore"
    /\ fs[last.file_path].data # last.pre.data

C34_WitnessAllowed ==
    /\ last.op = "update_file"
    /\ get_file(hash_storage, last.file_path).block_hashes
          = compute_file_hashes(fs[last.file_path].data)
    /\ fs[last.file_path].data \notin HandleBaselines

C34_WitnessIgnored ==
    /\ last.op = "on_file_event"
    /\ last.outcome = "ignored"

(***************************************************************************)
(* C35: the backup holds the baseline content.  restore_blocks with        *)
(* exactly the changed indices that check_integrity reports for the        *)
(* tampered file makes the file equal to the backup, and a check right     *)
(* after it returns NoChange, whether the tampered file was shorter than,  *)
(* as long as or longer than the backup.                                   *)
(***************************************************************************)
ReportedFor(F) ==
    check_integrity("/a", F, compute_file_hashes(BackupOf(TheBackup).data),
                    FALSE, now)

RestoredReported ==
    /\ last.op = "restore_blocks"
    /\ last.ok
    /\ last.pre.exists
    /\ last.indices = ReportedFor(last.pre).changed_block_indices

C35_RestoreReportedBlocks ==
    RestoredReported =>
        /\ fs["/a"].data = BackupOf(TheBackup).data
        /\ ReportedFor(fs["/a"]).change_type = "NO_CHANGE"

\* A tampered file shorter than the backup, ending inside a block.
C35_Witness ==
    /\ RestoredReported
    /\ last.pre.data # BackupOf(TheBackup).data
    /\ Len(last.pre.data) < Len(BackupOf(TheBackup).data)
    /\ Len(last.pre.data) % block_size # 0

\* A tampered file longer than the backup, and one of the same length.
C35_WitnessLonger ==
    /\ RestoredReported
    /\ Len(last.pre.data) > Len(BackupOf(TheBackup).data)
    /\ Len(BackupOf(TheBackup).data) % block_size # 0

C35_WitnessSameLength ==
    /\ RestoredReported
    /\ last.pre.data # BackupOf(TheBackup).data
    /\ Len(last.pre.data) = Len(BackupOf(TheBackup).data)
    /\ Cardinality(last.indices) = 1


(***************************************************************************)
(* Claims about the write lock of a restore (specification SpecRestoreIO). *)
(***************************************************************************)
\* C36: when restore_from_backup or restore_blocks has returned, with
\* success or with failure, an I/O error in the middle of the copy
\* included, the target, if it exists, has its owner write bit set.
C36_RestoreReleasesLock ==
    (last.op \in {"restore_from_backup", "restore_blocks"}
     /\ fs["/a"].exists)
    => "u" \in fs["/a"].wbits


(***************************************************************************)
(* Claims about the modes and the pause flag (specification SpecModes).    *)
(***************************************************************************)
\* C37: with no pause_monitoring command outstanding, whenever the mode is
\* Monitor the watcher is not paused: every way out of Update or
\* Emergency, the lapse of the deadline inside get_current_mode included,
\* resumes the event processing that the entry paused.
C37_MonitorNotPaused ==
    auth_manager.current_mode = "MONITOR" => ~watcher.is_paused


(***************************************************************************)
(* Claims about the mode a command decides on (specification SpecAuth).    *)
(***************************************************************************)
\* The call found current_mode = Update with the deadline passed.
CalledInExpiredUpdate ==
    /\ last.pre.current_mode = "UPDATE"
    /\ get_current_mode(last.pre, last.t).ret = "MONITOR"

\* C38: a mode command decides on the mode get_current_mode would report:
\* after the deadline of Update, enter_update_mode succeeds only as a fresh
\* entry that issues a new token, never as an extension of the expired
\* session, and enter_init_mode answers as it does in Monitor.
C38_DecidesOnReportedMode ==
    /\ (last.op = "enter_update_mode" /\ CalledInExpiredUpdate /\ last.ok)
       => last.token # 0
    /\ (last.op = "enter_init_mode" /\ CalledInExpiredUpdate)
       => last.ok = enter_init_mode(get_current_mode(last.pre, last.t).A,
                                   euid, last.user, last.t).ok


(***************************************************************************)
(* Claims about the session table (specification SpecAuth).                *)
(***************************************************************************)
\* C39: session tokens exist only during Update: in Monitor, Init and
\* Emergency the session table is empty, and the table never holds more
\* than one token.
C39_SessionsOnlyInUpdate ==
    /\ auth_manager.current_mode # "UPDATE"
       => auth_manager.active_sessions = {}
    /\ Cardinality(auth_manager.active_sessions) <= 1

\* An extension of Update has left the one token of the entry in place.
C39_Witness ==
    /\ last.op = "enter_update_mode"
    /\ last.ok
    /\ last.pre.current_mode = "UPDATE"
    /\ Cardinality(auth_manager.active_sessions) = 1

\* Emergency was entered from Update and the table is empty.
C39_WitnessEmergency ==
    /\ last.op = "enter_emergency_mode"
    /\ last.pre.active_sessions # {}
    /\ auth_manager.current_mode = "EMERGENCY"
    /\ auth_manager.active_sessions = {}


(***************************************************************************)
(* Claims about the control channel (specification SpecIpc).               *)
(***************************************************************************)
\* The bytes on the socket are whole frames: a length is followed by the
\* body of its own frame, and a body follows its length.
FramesWhole ==
    \A i \in 1..Len(ipc.sock) :
        /\ (ipc.sock[i].part = "length" /\ i < Len(ipc.sock))
           => ipc.sock[i + 1] = [frame |-> ipc.sock[i].frame,
                                 part |-> "body"]
        /\ (ipc.sock[i].part = "body" /\ i > 1)
           => ipc.sock[i - 1] = [frame |-> ipc.sock[i].frame,
                                 part |-> "length"]

\* C40: on one connection every request frame is answered by one response
\* frame that belongs to it, a broadcast notification is never delivered
\* as the response of a pending command, and the frames of the two
\* writing threads are never interleaved on the socket.
C40_ResponsesBelong ==
    /\ \A d \in ipc.delivered : d.frame = Response(d.request)
    /\ FramesWhole

=============================================================================
